---- MODULE Spec2Model ----
(***************************************************************************)
(* Model of the strategy / backtest / optimizer / scanner core of          *)
(* mult_strategy_analyzer.                                                 *)
(*                                                                         *)
(* Numbers.  Prices are integers in units of 1/20 of a currency unit, so   *)
(* that the 5% / 10% fallback levels of the backtester are integers.       *)
(* Quotients that pandas computes in floating point are kept as exact      *)
(* fractions [n |-> numerator, d |-> denominator] with d > 0.  An          *)
(* undefined value (numpy NaN / pandas NA) is the value NaN; every         *)
(* comparison with it is false, every arithmetic result on it is NaN.      *)
(***************************************************************************)
EXTENDS Integers, Sequences, FiniteSets, TLC

VARIABLES
    \* ---- StrategyBacktester -------------------------------------------
    daily_df,       \* the signal table handed to run()
    lookback_days,  \* run()'s lookback_days argument
    test_df,        \* the window run() simulates
    i,              \* loop index of _simulate_trades (1-based position in test_df)
    in_position, entry_price, entry_date, stop_loss, target,
    trades,         \* self.trades, the ledger
    metrics,        \* self.metrics
    calls,          \* how many times run() was called on this backtester
    \* ---- strategies ---------------------------------------------------
    strategy,       \* the strategy instance: its kind and constructor parameters
    series,         \* the OHLC series handed to calculate_full
    table,          \* the signal table calculate_full returns
    daily_signals,  \* check_convergence's daily_df argument
    weekly_signals, \* check_convergence's weekly_df argument
    verdict,        \* what check_convergence returns
    \* ---- StrategyOptimizer --------------------------------------------
    param_grid,     \* optimize()'s grid: a sequence of (name, candidate values)
    metric,         \* optimize()'s metric argument
    combo_i,        \* position of the loop in the list of combinations
    results,        \* self.results of the optimizer
    evaluated,      \* log: the combinations whose pipeline was started, in order
    best_params,    \* first component of what optimize returns
    results_df,     \* second component of what optimize returns
    \* ---- MultiAssetScanner --------------------------------------------
    tickers,        \* scan()'s ticker list
    min_win_rate, min_profit_factor,
    scan_i,         \* position of the loop in tickers
    scan_results,   \* self.results of the scanner
    successful, failed,
    scan_log,       \* log: what each processed ticker's fetch and pipeline did
    scan_df,        \* what scan returns
    pc              \* position of the running operation

btVars == <<daily_df, lookback_days, test_df, i, in_position, entry_price,
            entry_date, stop_loss, target, trades, metrics, calls>>

stratVars == <<strategy, series, table, daily_signals, weekly_signals, verdict>>

optVars == <<param_grid, metric, combo_i, results, evaluated, best_params, results_df>>

scanVars == <<tickers, min_win_rate, min_profit_factor, scan_i, scan_results,
              successful, failed, scan_log, scan_df>>

vars == <<btVars, stratVars, optVars, scanVars, pc>>

\* what each component leaves alone
notBT == <<stratVars, optVars, scanVars>>
notStrat == <<btVars, optVars, scanVars>>
notOpt == <<btVars, stratVars, scanVars>>
notScan == <<btVars, stratVars, optVars>>

----------------------------------------------------------------------------
\* Undefined values and exact fractions

NaN == -9999

DefaultLookback == 252

None == -7777

isna(x) == x = NaN

\* Python / numpy comparisons: False as soon as one side is NaN
Le(a, b) == ~isna(a) /\ ~isna(b) /\ a <= b
Ge(a, b) == ~isna(a) /\ ~isna(b) /\ a >= b
Gt(a, b) == ~isna(a) /\ ~isna(b) /\ a > b
Lt(a, b) == ~isna(a) /\ ~isna(b) /\ a < b

\* float subtraction: NaN is absorbing
Sub(a, b) == IF isna(a) \/ isna(b) THEN NaN ELSE a - b

\* exact fractions; a zero denominator is the undefined (NaN) fraction
RECURSIVE GCD(_, _)
GCD(a, b) == IF b = 0 THEN a ELSE GCD(b, a % b)

Abs(x) == IF x < 0 THEN 0 - x ELSE x

Rat(n, d) ==
    IF n = 0 THEN [n |-> 0, d |-> 1]
    ELSE LET g == GCD(Abs(n), Abs(d))
             s == IF d < 0 THEN 0 - 1 ELSE 1
         IN  [n |-> s * (n \div g), d |-> s * (d \div g)]

RZero == [n |-> 0, d |-> 1]
RNaN == [n |-> 0, d |-> 0]
RInt(k) == [n |-> k, d |-> 1]
risna(a) == a.d = 0
RAdd(a, b) == IF risna(a) \/ risna(b) THEN RNaN ELSE Rat(a.n * b.d + b.n * a.d, a.d * b.d)
RMul(a, b) == IF risna(a) \/ risna(b) THEN RNaN ELSE Rat(a.n * b.n, a.d * b.d)
RLt(a, b) == ~risna(a) /\ ~risna(b) /\ a.n * b.d < b.n * a.d
RLe(a, b) == ~risna(a) /\ ~risna(b) /\ a.n * b.d <= b.n * a.d
RGe(a, b) == RLe(b, a)
RGt(a, b) == RLt(b, a)

\* the empty dict {}
EmptyDict == <<>>

\* the backtester as constructed, before any run
BTIdle ==
    /\ daily_df = <<>>
    /\ lookback_days = DefaultLookback
    /\ test_df = <<>>
    /\ i = 0
    /\ in_position = FALSE
    /\ entry_price = 0
    /\ entry_date = None
    /\ stop_loss = 0
    /\ target = 0
    /\ trades = <<>>
    /\ metrics = EmptyDict
    /\ calls = 0

\* the optimizer as constructed
OptIdle ==
    /\ param_grid = <<>>
    /\ metric = "profit_factor"
    /\ combo_i = 0
    /\ results = <<>>
    /\ evaluated = <<>>
    /\ best_params = EmptyDict
    /\ results_df = <<>>

\* the scanner as constructed
ScanIdle ==
    /\ tickers = <<>>
    /\ min_win_rate = RZero
    /\ min_profit_factor = RZero
    /\ scan_i = 0
    /\ scan_results = <<>>
    /\ successful = 0
    /\ failed = 0
    /\ scan_log = <<>>
    /\ scan_df = <<>>

\* `if x:` on a number or None: None and 0 are false, NaN is true
Truthy(x) == x # None /\ x # 0

----------------------------------------------------------------------------
\* Bounds of the model and the tables it is run on

MaxBars == 3

MinLookback == 2

Candles ==
    { [Low |-> 40, High |-> 40, Close |-> 40],
      [Low |-> 20, High |-> 60, Close |-> 40],
      [Low |-> 40, High |-> 60, Close |-> 60],
      [Low |-> 20, High |-> 40, Close |-> 20] }

\* signal-table rows without the stop_loss / target columns
BareRows ==
    { [signal |-> s, Low |-> c.Low, High |-> c.High, Close |-> c.Close] :
        s \in {0, 1}, c \in Candles }
    \cup { [signal |-> NaN, Low |-> 20, High |-> 60, Close |-> 40],
           [signal |-> 1, Low |-> 20, High |-> 60, Close |-> NaN] }

\* rows with the two columns: levels one tick away from Close, or undefined
\* (ATR warm-up); a row with undefined Close has undefined levels
WithLevels(r, defined) ==
    [signal |-> r.signal, Low |-> r.Low, High |-> r.High, Close |-> r.Close,
     stop_loss |-> IF defined THEN Sub(r.Close, 20) ELSE NaN,
     target |-> IF defined /\ ~isna(r.Close) THEN r.Close + 20 ELSE NaN]

LevelRows ==
    { WithLevels(r, TRUE) : r \in BareRows }
    \cup { WithLevels(r, FALSE) : r \in {b \in BareRows : b.signal = 1} }

SeqsUpTo(S, n) == UNION { [1..k -> S] : k \in 1..n }

\* a table: rows of one shape, indexed by ascending dates (row.name)
Dated(t) == [k \in 1..Len(t) |-> [date |-> k, row |-> t[k]]]

SignalTables ==
    { Dated(t) : t \in SeqsUpTo(BareRows, MaxBars) \cup SeqsUpTo(LevelRows, MaxBars) }

----------------------------------------------------------------------------
\* Strategies: indicators, signals, convergence

MaxSeries == 4

StopMultiplier == Rat(3, 2)

TargetMultiplier == RInt(2)

\* OHLC bars of the raw series (Open and Volume are read by no strategy)
Bars ==
    Candles \cup { [Low |-> 60, High |-> 80, Close |-> 80] }

RawSeries == {<<>>} \cup SeqsUpTo(Bars, MaxSeries)

\* constructor parameters; the multipliers keep their defaults
CacasChannelStrategy(upper, under, ema, atr_period) ==
    [kind |-> "cacas", upper |-> upper, under |-> under, ema |-> ema,
     atr_period |-> atr_period, stop_multiplier |-> StopMultiplier,
     target_multiplier |-> TargetMultiplier]

MovingAverageCrossStrategy(fast_period, slow_period, atr_period) ==
    [kind |-> "ma", fast_period |-> fast_period, slow_period |-> slow_period,
     atr_period |-> atr_period, stop_multiplier |-> StopMultiplier,
     target_multiplier |-> TargetMultiplier]

MSSStrategy(swing_length, atr_period) ==
    [kind |-> "mss", swing_length |-> swing_length, atr_period |-> atr_period,
     stop_multiplier |-> StopMultiplier, target_multiplier |-> TargetMultiplier]

Strategies ==
    { CacasChannelStrategy(u, d, e, a) : u \in {1, 2}, d \in {1, 2}, e \in {1, 3}, a \in {1, 2} }
    \cup { MovingAverageCrossStrategy(1, 3, a) : a \in {1, 2} }
    \cup { MSSStrategy(1, a) : a \in {1, 2} }

Max2(a, b) == IF a >= b THEN a ELSE b

\* true range of bar k: max(axis=1) skips the two undefined terms of the
\* first bar, whose previous Close does not exist
TrueRange(df, k) ==
    LET high_low == df[k].High - df[k].Low IN
    IF k = 1 THEN high_low
    ELSE Max2(high_low, Max2(Abs(df[k].High - df[k - 1].Close),
                             Abs(df[k].Low - df[k - 1].Close)))

RECURSIVE SumOver(_, _, _)
\* sum of the column s over the rows a..b
SumOver(s, a, b) == IF a > b THEN 0 ELSE s[a] + SumOver(s, a + 1, b)

\* Series.rolling(w).mean() at bar k: undefined until w bars are available
RollingMean(s, w, k) ==
    IF k < w THEN RNaN ELSE Rat(SumOver(s, k - w + 1, k), w)

ATR(df, atr_period, k) ==
    RollingMean([j \in 1..Len(df) |-> TrueRange(df, j)], atr_period, k)

RECURSIVE Ewm(_, _, _)
\* Series.ewm(span, adjust=False).mean() of Close at bar k
Ewm(df, span, k) ==
    LET alpha == Rat(2, span + 1) IN
    IF k = 1 THEN RInt(df[1].Close)
    ELSE RAdd(RMul(alpha, RInt(df[k].Close)),
              RMul(RAdd(RInt(1), RMul(RInt(0 - 1), alpha)), Ewm(df, span, k - 1)))

\* stop_loss = Close - atr * stop_multiplier
RiskStop(st, close, atr) ==
    RAdd(RInt(close), RMul(RInt(0 - 1), RMul(atr, st.stop_multiplier)))

\* target = Close + atr * stop_multiplier * target_multiplier
RiskTarget(st, close, atr) ==
    RAdd(RInt(close), RMul(RMul(atr, st.stop_multiplier), st.target_multiplier))

\* (a > b).astype(int): a comparison with an undefined side is False
GtInt(a, b) == IF RGt(a, b) THEN 1 ELSE 0

\* ---- CacasChannelStrategy --------------------------------------------------

CacasIndicators(st, df) ==
    [k \in 1..Len(df) |->
        LET up == RollingMean([j \in 1..Len(df) |-> df[j].High], st.upper, k)
            un == RollingMean([j \in 1..Len(df) |-> df[j].Low], st.under, k)
        IN  [Low |-> df[k].Low, High |-> df[k].High, Close |-> df[k].Close,
             cacas_upper |-> up, cacas_under |-> un,
             cacas_mid |-> RMul(RAdd(up, un), Rat(1, 2)),
             ema |-> Ewm(df, st.ema, k),
             atr |-> ATR(df, st.atr_period, k)]]

CacasSignals(st, df) ==
    [k \in 1..Len(df) |->
        [Low |-> df[k].Low, High |-> df[k].High, Close |-> df[k].Close,
         cacas_upper |-> df[k].cacas_upper, cacas_under |-> df[k].cacas_under,
         cacas_mid |-> df[k].cacas_mid, ema |-> df[k].ema, atr |-> df[k].atr,
         signal |-> GtInt(df[k].cacas_mid, df[k].ema),
         stop_loss |-> RiskStop(st, df[k].Close, df[k].atr),
         target |-> RiskTarget(st, df[k].Close, df[k].atr)]]

\* ---- MovingAverageCrossStrategy --------------------------------------------

MAIndicators(st, df) ==
    [k \in 1..Len(df) |->
        [Low |-> df[k].Low, High |-> df[k].High, Close |-> df[k].Close,
         ema_fast |-> Ewm(df, st.fast_period, k),
         ema_slow |-> Ewm(df, st.slow_period, k),
         atr |-> ATR(df, st.atr_period, k)]]

MASignals(st, df) ==
    [k \in 1..Len(df) |->
        [Low |-> df[k].Low, High |-> df[k].High, Close |-> df[k].Close,
         ema_fast |-> df[k].ema_fast, ema_slow |-> df[k].ema_slow, atr |-> df[k].atr,
         signal |-> GtInt(df[k].ema_fast, df[k].ema_slow),
         stop_loss |-> RiskStop(st, df[k].Close, df[k].atr),
         target |-> RiskTarget(st, df[k].Close, df[k].atr)]]

\* ---- MSSStrategy -----------------------------------------------------------

\* variant: a High equal to a neighbour's still counts as a swing high
DetectSwingHighTies(df, length) ==
    [k \in 1..Len(df) |->
        IF /\ k - 1 >= length /\ k - 1 < Len(df) - length
           /\ \A j \in 1..length :
                ~(df[k - j].High > df[k].High \/ df[k + j].High > df[k].High)
        THEN df[k].High ELSE NaN]

\* bar k (python index k - 1, in range(length, len(df) - length)) is a swing
\* high when no High within length bars on either side reaches it
DetectSwingHigh(df, length) ==
    [k \in 1..Len(df) |->
        IF /\ k - 1 >= length /\ k - 1 < Len(df) - length
           /\ \A j \in 1..length :
                ~(df[k - j].High >= df[k].High \/ df[k + j].High >= df[k].High)
        THEN df[k].High ELSE NaN]

DetectSwingLow(df, length) ==
    [k \in 1..Len(df) |->
        IF /\ k - 1 >= length /\ k - 1 < Len(df) - length
           /\ \A j \in 1..length :
                ~(df[k - j].Low <= df[k].Low \/ df[k + j].Low <= df[k].Low)
        THEN df[k].Low ELSE NaN]

RECURSIVE FFillAt(_, _)
\* fillna(method='ffill') at position k
FFillAt(xs, k) ==
    IF k = 0 THEN NaN
    ELSE IF ~isna(xs[k]) THEN xs[k] ELSE FFillAt(xs, k - 1)

StructureLine(h, l) == IF isna(h) \/ isna(l) THEN RNaN ELSE Rat(h + l, 2)

\* (SubSeq over the whole index range is the identity on a column or table;
\* it is written out so that each column is computed once)
MSSIndicators(st, df) ==
    LET sh == SubSeq(DetectSwingHigh(df, st.swing_length), 1, Len(df))
        sl == SubSeq(DetectSwingLow(df, st.swing_length), 1, Len(df))
        rows == [k \in 1..Len(df) |->
            [Low |-> df[k].Low, High |-> df[k].High, Close |-> df[k].Close,
             swing_high |-> sh[k], swing_low |-> sl[k],
             last_swing_high |-> FFillAt(sh, k), last_swing_low |-> FFillAt(sl, k),
             structure_line |-> StructureLine(FFillAt(sh, k), FFillAt(sl, k)),
             atr |-> ATR(df, st.atr_period, k)]]
    IN  SubSeq(rows, 1, Len(df))

\* variant: a bearish breakout leaves previous_structure as it was
MSSStepBearKeepsStructure(df, k, previous_structure) ==
    LET current_price == df[k].Close
        last_swing_high == df[k - 1].last_swing_high
        last_swing_low == df[k - 1].last_swing_low
    IN  IF Gt(current_price, last_swing_high)
        THEN [signal |-> 1,
              signal_type |-> IF previous_structure <= 0 THEN "MSS_BULL" ELSE "BOS_BULL",
              structure |-> 1]
        ELSE IF Lt(current_price, last_swing_low)
        THEN [signal |-> 0,
              signal_type |-> IF previous_structure >= 0 THEN "MSS_BEAR" ELSE "BOS_BEAR",
              structure |-> previous_structure]
        ELSE [signal |-> IF previous_structure > 0 THEN 1 ELSE 0,
              signal_type |-> "",
              structure |-> previous_structure]

\* variant: a bullish breakout from the neutral structure counts as a
\* continuation
MSSStepNeutralContinues(df, k, previous_structure) ==
    LET current_price == df[k].Close
        last_swing_high == df[k - 1].last_swing_high
        last_swing_low == df[k - 1].last_swing_low
    IN  IF Gt(current_price, last_swing_high)
        THEN [signal |-> 1,
              signal_type |-> IF previous_structure < 0 THEN "MSS_BULL" ELSE "BOS_BULL",
              structure |-> 1]
        ELSE IF Lt(current_price, last_swing_low)
        THEN [signal |-> 0,
              signal_type |-> IF previous_structure >= 0 THEN "MSS_BEAR" ELSE "BOS_BEAR",
              structure |-> 0 - 1]
        ELSE [signal |-> IF previous_structure > 0 THEN 1 ELSE 0,
              signal_type |-> "",
              structure |-> previous_structure]

\* variant: the breakout test reads the swing levels of the bar itself
MSSStepSameBar(df, k, previous_structure) ==
    LET current_price == df[k].Close
        last_swing_high == df[k].last_swing_high
        last_swing_low == df[k].last_swing_low
    IN  IF Gt(current_price, last_swing_high)
        THEN [signal |-> 1,
              signal_type |-> IF previous_structure <= 0 THEN "MSS_BULL" ELSE "BOS_BULL",
              structure |-> 1]
        ELSE IF Lt(current_price, last_swing_low)
        THEN [signal |-> 0,
              signal_type |-> IF previous_structure >= 0 THEN "MSS_BEAR" ELSE "BOS_BEAR",
              structure |-> 0 - 1]
        ELSE [signal |-> IF previous_structure > 0 THEN 1 ELSE 0,
              signal_type |-> "",
              structure |-> previous_structure]

\* variant: a bar without breakout is always flat
MSSStepHoldFlat(df, k, previous_structure) ==
    LET current_price == df[k].Close
        last_swing_high == df[k - 1].last_swing_high
        last_swing_low == df[k - 1].last_swing_low
    IN  IF Gt(current_price, last_swing_high)
        THEN [signal |-> 1,
              signal_type |-> IF previous_structure <= 0 THEN "MSS_BULL" ELSE "BOS_BULL",
              structure |-> 1]
        ELSE IF Lt(current_price, last_swing_low)
        THEN [signal |-> 0,
              signal_type |-> IF previous_structure >= 0 THEN "MSS_BEAR" ELSE "BOS_BEAR",
              structure |-> 0 - 1]
        ELSE [signal |-> 0,
              signal_type |-> "",
              structure |-> previous_structure]

\* one iteration of the loop of generate_signals on bar k >= 2 with the
\* running previous_structure: the signal, the tag and the new structure
MSSStep(df, k, previous_structure) ==
    LET current_price == df[k].Close
        last_swing_high == df[k - 1].last_swing_high
        last_swing_low == df[k - 1].last_swing_low
    IN  IF Gt(current_price, last_swing_high)
        THEN [signal |-> 1,
              signal_type |-> IF previous_structure <= 0 THEN "MSS_BULL" ELSE "BOS_BULL",
              structure |-> 1]
        ELSE IF Lt(current_price, last_swing_low)
        THEN [signal |-> 0,
              signal_type |-> IF previous_structure >= 0 THEN "MSS_BEAR" ELSE "BOS_BEAR",
              structure |-> 0 - 1]
        ELSE [signal |-> IF previous_structure > 0 THEN 1 ELSE 0,
              signal_type |-> "",
              structure |-> previous_structure]

RECURSIVE MSSLoop(_, _)
\* the state of the loop after bar k; bar 1 keeps the initial signal 0, tag ''
\* and structure 0
MSSLoop(df, k) ==
    IF k <= 1 THEN [signal |-> 0, signal_type |-> "", structure |-> 0]
    ELSE MSSStep(df, k, MSSLoop(df, k - 1).structure)

MSSSignals(st, df) ==
    LET rows == [k \in 1..Len(df) |->
        LET loop == MSSLoop(df, k) IN
        [Low |-> df[k].Low, High |-> df[k].High, Close |-> df[k].Close,
         swing_high |-> df[k].swing_high, swing_low |-> df[k].swing_low,
         last_swing_high |-> df[k].last_swing_high,
         last_swing_low |-> df[k].last_swing_low,
         structure_line |-> df[k].structure_line, atr |-> df[k].atr,
         signal |-> loop.signal,
         signal_type |-> loop.signal_type,
         stop_loss |-> RiskStop(st, df[k].Close, df[k].atr),
         target |-> RiskTarget(st, df[k].Close, df[k].atr)]]
    IN  SubSeq(rows, 1, Len(df))

\* ---- check_convergence ----------------------------------------------------

\* df[col].iloc[-1]; the empty sequence stands for the IndexError an empty
\* table raises, a one-element sequence for the value read
ILocLast(df, col) == IF df = <<>> THEN <<>> ELSE <<df[Len(df)][col]>>

\* variant: the read without its emptiness guard
Unguarded(df, col, default) == ILocLast(df, col)

\* `df[col].iloc[-1] if not df.empty else default`
Guarded(df, col, default) ==
    IF df # <<>> THEN ILocLast(df, col) ELSE <<default>>

\* bool(x) of a number: NaN is true
Bool(x) == x # 0

\* variant: either timeframe suffices
HasConvergenceEither(daily_signal, weekly_signal) ==
    daily_signal = 1 \/ weekly_signal = 1

HasConvergence(daily_signal, weekly_signal) ==
    daily_signal = 1 /\ weekly_signal = 1

RDiv(a, b) ==
    IF risna(a) \/ risna(b) \/ b.n = 0 THEN RNaN ELSE Rat(a.n * b.d, a.d * b.n)

\* (ema_fast - ema_slow) / ema_slow * 100 of the last row, 0 for an empty table
DistancePct(df) ==
    IF df = <<>> THEN <<RZero>>
    ELSE LET f == ILocLast(df, "ema_fast")
             w == ILocLast(df, "ema_slow")
         IN  IF f = <<>> \/ w = <<>> THEN <<>>
             ELSE <<RMul(RDiv(RAdd(f[1], RMul(RInt(0 - 1), w[1])), w[1]), RInt(100))>>

\* the reads of the info dict that are the same for every strategy
CommonReads(daily, weekly) ==
    [daily_signal |-> Guarded(daily, "signal", 0),
     weekly_signal |-> Guarded(weekly, "signal", 0),
     stop_loss |-> Guarded(daily, "stop_loss", RZero),
     target |-> Guarded(daily, "target", RZero),
     atr |-> Guarded(daily, "atr", RZero)]

CacasReads(daily, weekly) ==
    [daily_mid |-> Guarded(daily, "cacas_mid", RZero),
     daily_ema |-> Guarded(daily, "ema", RZero),
     weekly_mid |-> Guarded(weekly, "cacas_mid", RZero),
     weekly_ema |-> Guarded(weekly, "ema", RZero)]

MAReads(daily, weekly) ==
    [daily_ema_fast |-> Guarded(daily, "ema_fast", RZero),
     daily_ema_slow |-> Guarded(daily, "ema_slow", RZero),
     weekly_ema_fast |-> Guarded(weekly, "ema_fast", RZero),
     weekly_ema_slow |-> Guarded(weekly, "ema_slow", RZero),
     daily_distance_pct |-> DistancePct(daily),
     weekly_distance_pct |-> DistancePct(weekly)]

MSSReads(daily, weekly) ==
    [daily_signal_type |-> Guarded(daily, "signal_type", ""),
     weekly_signal_type |-> Guarded(weekly, "signal_type", ""),
     daily_swing_high |-> Guarded(daily, "last_swing_high", 0),
     daily_swing_low |-> Guarded(daily, "last_swing_low", 0),
     weekly_swing_high |-> Guarded(weekly, "last_swing_high", 0),
     weekly_swing_low |-> Guarded(weekly, "last_swing_low", 0),
     entry_price |-> Guarded(daily, "Close", 0)]

KindReads(st, daily, weekly) ==
    CASE st.kind = "cacas" -> CacasReads(daily, weekly)
      [] st.kind = "ma" -> MAReads(daily, weekly)
      [] st.kind = "mss" -> MSSReads(daily, weekly)

\* check_convergence: (has_convergence, info), or raised when a read failed
CheckConvergence(st, daily, weekly) ==
    LET c == CommonReads(daily, weekly)
        e == KindReads(st, daily, weekly)
    IN  IF (\E f \in DOMAIN c : c[f] = <<>>) \/ (\E f \in DOMAIN e : e[f] = <<>>)
        THEN [raised |-> TRUE]
        ELSE LET has_convergence == HasConvergence(c.daily_signal[1], c.weekly_signal[1])
             IN  [raised |-> FALSE,
                  has_convergence |-> has_convergence,
                  info |-> [daily_signal |-> Bool(c.daily_signal[1]),
                            weekly_signal |-> Bool(c.weekly_signal[1]),
                            convergence |-> has_convergence,
                            stop_loss |-> c.stop_loss[1],
                            target |-> c.target[1],
                            atr |-> c.atr[1]],
                  extra |-> [f \in DOMAIN e |-> e[f][1]]]

\* ---- BaseStrategy ----------------------------------------------------------

CalculateIndicators(st, df) ==
    CASE st.kind = "cacas" -> CacasIndicators(st, df)
      [] st.kind = "ma" -> MAIndicators(st, df)
      [] st.kind = "mss" -> MSSIndicators(st, df)

GenerateSignals(st, df) ==
    CASE st.kind = "cacas" -> CacasSignals(st, df)
      [] st.kind = "ma" -> MASignals(st, df)
      [] st.kind = "mss" -> MSSSignals(st, df)

CalculateFull(st, df) == GenerateSignals(st, CalculateIndicators(st, df))

\* variant: MSS calculate_indicators annotates the table it is given
IndicatorsCopyExceptMSS(st) == st.kind # "mss"

\* whether calculate_indicators starts with df = df.copy()
IndicatorsCopy(st) ==
    CASE st.kind = "cacas" -> TRUE
      [] st.kind = "ma" -> TRUE
      [] st.kind = "mss" -> TRUE

\* whether generate_signals starts with df = df.copy()
SignalsCopy(st) ==
    CASE st.kind = "cacas" -> TRUE
      [] st.kind = "ma" -> TRUE
      [] st.kind = "mss" -> TRUE

\* the caller's table after calculate_full(df): column assignments land on it
\* as far as the stages work on the object they were handed
CallerTableAfter(st, df) ==
    IF IndicatorsCopy(st) THEN df
    ELSE IF SignalsCopy(st) THEN CalculateIndicators(st, df)
    ELSE CalculateFull(st, df)

NoStrategy == [kind |-> "none"]

StratIdle ==
    /\ strategy = NoStrategy
    /\ series = <<>>
    /\ table = <<>>
    /\ daily_signals = <<>>
    /\ weekly_signals = <<>>
    /\ verdict = EmptyDict

SigInit ==
    /\ strategy \in Strategies
    /\ series \in RawSeries \ {<<>>}
    /\ table = <<>>
    /\ daily_signals = <<>>
    /\ weekly_signals = <<>>
    /\ verdict = EmptyDict
    /\ BTIdle /\ OptIdle /\ ScanIdle
    /\ pc = "start"

\* calculate_full(series)
CalcFull ==
    /\ pc = "start"
    /\ strategy # NoStrategy
    /\ series # <<>>
    /\ table' = CalculateFull(strategy, series)
    /\ series' = CallerTableAfter(strategy, series)
    /\ pc' = "done"
    /\ UNCHANGED <<strategy, daily_signals, weekly_signals, verdict>>
    /\ UNCHANGED notStrat

SigNext == CalcFull

SpecSig == SigInit /\ [][SigNext]_vars

\* ---- MSSStrategy on longer series -----------------------------------------

MaxMSSBars == 6

\* bars for the swing and breakout logic: two flat bars, a rising bar, a
\* falling bar and a wide bar
MSSBars ==
    { [Low |-> 40, High |-> 40, Close |-> 40],
      [Low |-> 60, High |-> 60, Close |-> 60],
      [Low |-> 60, High |-> 80, Close |-> 80],
      [Low |-> 20, High |-> 40, Close |-> 20],
      [Low |-> 20, High |-> 60, Close |-> 40] }

MSSSeries == SeqsUpTo(MSSBars, MaxMSSBars)

MSSStrategies == { MSSStrategy(1, 1), MSSStrategy(2, 1) }

MSSInit ==
    /\ strategy \in MSSStrategies
    /\ series \in MSSSeries
    /\ table = <<>>
    /\ daily_signals = <<>>
    /\ weekly_signals = <<>>
    /\ verdict = EmptyDict
    /\ BTIdle /\ OptIdle /\ ScanIdle
    /\ pc = "start"

MSSNext == CalcFull

SpecMSS == MSSInit /\ [][MSSNext]_vars

\* ---- MSSStrategy with swing_length 2 on series that are extended -----------

MaxLookaheadBars == 8

\* a base bar, a bar with a small peak, a bar with a high peak that closes
\* below it, and a bar closing between the two peaks
LookaheadBars ==
    { [Low |-> 20, High |-> 20, Close |-> 20],
      [Low |-> 20, High |-> 40, Close |-> 20],
      [Low |-> 60, High |-> 80, Close |-> 60],
      [Low |-> 40, High |-> 60, Close |-> 60] }

\* series of up to MaxLookaheadBars bars that open with the base bar
LookaheadSeries ==
    { <<[Low |-> 20, High |-> 20, Close |-> 20]>> \o s :
        s \in {<<>>} \cup SeqsUpTo(LookaheadBars, MaxLookaheadBars - 1) }

LookaheadInit ==
    /\ strategy = MSSStrategy(2, 1)
    /\ series \in LookaheadSeries
    /\ table = <<>>
    /\ daily_signals = <<>>
    /\ weekly_signals = <<>>
    /\ verdict = EmptyDict
    /\ BTIdle /\ OptIdle /\ ScanIdle
    /\ pc = "start"

LookaheadNext == CalcFull

SpecLookahead == LookaheadInit /\ [][LookaheadNext]_vars

\* the series whose signal tables check_convergence is run on: none, one
\* bar, or MaxSeries bars that do not fall
ConvSeries ==
    {<<>>} \cup SeqsUpTo(Bars, 1)
    \cup [1..MaxSeries -> { c \in Bars : c.Close >= 40 /\ c.Low >= 40 }]

ConvStrategies ==
    { CacasChannelStrategy(1, 1, 3, 1), MovingAverageCrossStrategy(1, 3, 1),
      MSSStrategy(1, 1) }

ConvInit ==
    /\ strategy \in ConvStrategies
    /\ series = <<>>
    /\ table = <<>>
    /\ daily_signals \in { CalculateFull(strategy, x) : x \in ConvSeries }
    /\ weekly_signals \in { CalculateFull(strategy, x) : x \in ConvSeries }
    /\ verdict = EmptyDict
    /\ BTIdle /\ OptIdle /\ ScanIdle
    /\ pc = "start"

\* check_convergence(daily_signals, weekly_signals)
CheckConv ==
    /\ pc = "start"
    /\ strategy # NoStrategy
    /\ series = <<>>
    /\ verdict' = CheckConvergence(strategy, daily_signals, weekly_signals)
    /\ pc' = "done"
    /\ UNCHANGED <<strategy, series, table, daily_signals, weekly_signals>>
    /\ UNCHANGED notStrat

ConvNext == CheckConv

SpecConv == ConvInit /\ [][ConvNext]_vars

----------------------------------------------------------------------------
\* StrategyBacktester

\* variant: the whole table is replayed
WholeTable(df, n) == df

\* DataFrame.tail(n)
Tail_n(df, n) ==
    IF Len(df) > n THEN SubSeq(df, Len(df) - n + 1, Len(df)) ELSE df

\* variant: the default also replaces an undefined value of the column
RowGetFillsUndefined(r, col, default) ==
    IF col \in DOMAIN r /\ ~isna(r[col]) THEN r[col] ELSE default

\* row.get(col, default): the default only when the column does not exist
RowGet(r, col, default) == IF col \in DOMAIN r THEN r[col] ELSE default

FallbackStop(p) == (p * 95) \div 100
FallbackTarget(p) == (p * 110) \div 100

\* variant: the target test placed before the stop test
ExitDecisionTargetFirst(r, sl, tg) ==
    IF Ge(r.High, tg) THEN [price |-> tg, reason |-> "target"]
    ELSE IF Le(r.Low, sl) THEN [price |-> sl, reason |-> "stop_loss"]
    ELSE IF r.signal = 0 THEN [price |-> r.Close, reason |-> "signal_exit"]
    ELSE [price |-> None, reason |-> "none"]

\* variant: an exit by stop or target is priced at the bar's Close
ExitDecisionAtClose(r, sl, tg) ==
    IF Le(r.Low, sl) THEN [price |-> r.Close, reason |-> "stop_loss"]
    ELSE IF Ge(r.High, tg) THEN [price |-> r.Close, reason |-> "target"]
    ELSE IF r.signal = 0 THEN [price |-> r.Close, reason |-> "signal_exit"]
    ELSE [price |-> None, reason |-> "none"]

\* the if / elif / elif chain that picks the exit of one bar
ExitDecision(r, sl, tg) ==
    IF Le(r.Low, sl) THEN [price |-> sl, reason |-> "stop_loss"]
    ELSE IF Ge(r.High, tg) THEN [price |-> tg, reason |-> "target"]
    ELSE IF r.signal = 0 THEN [price |-> r.Close, reason |-> "signal_exit"]
    ELSE [price |-> None, reason |-> "none"]

PnlPct(pnl, ep) == IF isna(pnl) THEN RNaN ELSE Rat(pnl * 100, ep)

\* variant: the percentage is taken of the exit price
TradePctOfExit(ed, xd, ep, xp, sl, tg, reason) ==
    [entry_date |-> ed, exit_date |-> xd, entry_price |-> ep, exit_price |-> xp,
     stop_loss |-> sl, target |-> tg, pnl |-> Sub(xp, ep),
     pnl_pct |-> PnlPct(Sub(xp, ep), xp), exit_reason |-> reason,
     duration_days |-> xd - ed]

\* the record appended to self.trades
Trade(ed, xd, ep, xp, sl, tg, reason) ==
    [entry_date |-> ed, exit_date |-> xd, entry_price |-> ep, exit_price |-> xp,
     stop_loss |-> sl, target |-> tg, pnl |-> Sub(xp, ep),
     pnl_pct |-> PnlPct(Sub(xp, ep), ep), exit_reason |-> reason,
     duration_days |-> xd - ed]

\* ---- _calculate_metrics ---------------------------------------------------

RECURSIVE SumPnl(_)
\* Series.sum() of the pnl column: undefined entries are skipped
SumPnl(ts) ==
    IF ts = <<>> THEN 0
    ELSE (IF isna(Head(ts).pnl) THEN 0 ELSE Head(ts).pnl) + SumPnl(Tail(ts))

RECURSIVE SumPct(_)
SumPct(ts) ==
    IF ts = <<>> THEN RZero
    ELSE RAdd(IF risna(Head(ts).pnl_pct) THEN RZero ELSE Head(ts).pnl_pct,
              SumPct(Tail(ts)))

CountDefinedPct(ts) == Len(SelectSeq(ts, LAMBDA t : ~risna(t.pnl_pct)))

\* Series.mean() of the pnl_pct column: undefined entries are skipped, and
\* the mean of nothing is undefined
MeanPct(ts) ==
    IF CountDefinedPct(ts) = 0 THEN RNaN
    ELSE RMul(SumPct(ts), Rat(1, CountDefinedPct(ts)))

RECURSIVE MaxPct(_)
\* Series.max() of the pnl_pct column of a non-empty selection
MaxPct(ts) ==
    IF Len(ts) = 1 THEN Head(ts).pnl_pct
    ELSE LET m == MaxPct(Tail(ts)) IN
         IF RGt(Head(ts).pnl_pct, m) THEN Head(ts).pnl_pct ELSE m

RECURSIVE MinPct(_)
MinPct(ts) ==
    IF Len(ts) = 1 THEN Head(ts).pnl_pct
    ELSE LET m == MinPct(Tail(ts)) IN
         IF RLt(Head(ts).pnl_pct, m) THEN Head(ts).pnl_pct ELSE m

RECURSIVE SumDuration(_)
SumDuration(ts) ==
    IF ts = <<>> THEN 0 ELSE Head(ts).duration_days + SumDuration(Tail(ts))

\* variant: the summaries of an empty ledger are the means of nothing
ZeroMetricsUndefinedMeans ==
    [total_trades |-> 0, win_rate |-> RZero, win_rate_adjusted |-> RZero,
     total_return |-> RZero, avg_return |-> RNaN, profit_factor |-> RZero,
     max_drawdown |-> RNaN, sharpe_ratio |-> RZero,
     expectancy |-> RZero, winners |-> 0, losers |-> 0,
     targets_hit |-> 0, stops_hit |-> 0,
     avg_winner |-> RZero, avg_loser |-> RZero,
     largest_winner |-> RZero, largest_loser |-> RZero,
     avg_duration_days |-> RNaN]

\* the record returned for an empty ledger
ZeroMetrics ==
    [total_trades |-> 0, win_rate |-> RZero, win_rate_adjusted |-> RZero,
     total_return |-> RZero, avg_return |-> RZero, profit_factor |-> RZero,
     max_drawdown |-> RZero, sharpe_ratio |-> RZero,
     expectancy |-> RZero, winners |-> 0, losers |-> 0,
     targets_hit |-> 0, stops_hit |-> 0,
     avg_winner |-> RZero, avg_loser |-> RZero,
     largest_winner |-> RZero, largest_loser |-> RZero,
     avg_duration_days |-> RZero]

\* variant: without a loss the profit factor is the gross profit itself
ProfitFactorUncapped(gross_profit, gross_loss) ==
    IF gross_loss > 0 THEN Rat(gross_profit, gross_loss) ELSE RInt(gross_profit)

\* (gross_profit / gross_loss) if gross_loss > 0 else 0
ProfitFactor(gross_profit, gross_loss) ==
    IF gross_loss > 0 THEN Rat(gross_profit, gross_loss) ELSE RZero

\* max_drawdown and sharpe_ratio of a non-empty ledger are floating-point
\* summaries (a running product, a standard deviation and a square root) that
\* no operation reads back; they are not part of the record modelled for a
\* non-empty ledger
CalculateMetrics(ts) ==
    IF ts = <<>> THEN ZeroMetrics
    ELSE
    LET total_trades == Len(ts)
        winners == SelectSeq(ts, LAMBDA t : Gt(t.pnl, 0))
        losers == SelectSeq(ts, LAMBDA t : Le(t.pnl, 0))
        win_rate == Rat(Len(winners) * 100, total_trades)
        targets == SelectSeq(ts, LAMBDA t : t.exit_reason = "target")
        stops == SelectSeq(ts, LAMBDA t : t.exit_reason = "stop_loss")
        defined_exits == Len(targets) + Len(stops)
        win_rate_adjusted ==
            IF defined_exits > 0 THEN Rat(Len(targets) * 100, defined_exits) ELSE RZero
        gross_profit == IF Len(winners) > 0 THEN SumPnl(winners) ELSE 0
        gross_loss == IF Len(losers) > 0 THEN Abs(SumPnl(losers)) ELSE 0
        profit_factor == ProfitFactor(gross_profit, gross_loss)
        win_prob == Rat(Len(winners), total_trades)
        avg_win == IF Len(winners) > 0 THEN MeanPct(winners) ELSE RZero
        loss_prob == Rat(Len(losers), total_trades)
        avg_loss == IF Len(losers) > 0 THEN MeanPct(losers) ELSE RZero
    IN  [total_trades |-> total_trades, win_rate |-> win_rate,
         win_rate_adjusted |-> win_rate_adjusted,
         total_return |-> SumPct(ts), avg_return |-> MeanPct(ts),
         profit_factor |-> profit_factor,
         expectancy |-> RAdd(RMul(win_prob, avg_win), RMul(loss_prob, avg_loss)),
         winners |-> Len(winners), losers |-> Len(losers),
         targets_hit |-> Len(targets), stops_hit |-> Len(stops),
         avg_winner |-> avg_win, avg_loser |-> avg_loss,
         largest_winner |-> IF Len(winners) > 0 THEN MaxPct(winners) ELSE RZero,
         largest_loser |-> IF Len(losers) > 0 THEN MinPct(losers) ELSE RZero,
         avg_duration_days |-> Rat(SumDuration(ts), total_trades)]

\* ---- run / _simulate_trades -----------------------------------------------

BTInit ==
    /\ daily_df \in SignalTables
    /\ lookback_days \in {MinLookback, DefaultLookback}
    /\ test_df = <<>>
    /\ i = 0
    /\ in_position = FALSE
    /\ entry_price = 0
    /\ entry_date = None
    /\ stop_loss = 0
    /\ target = 0
    /\ trades = <<>>
    /\ metrics = EmptyDict
    /\ calls = 0
    /\ StratIdle /\ OptIdle /\ ScanIdle
    /\ pc = "start"

\* variant: run() without `self.trades = []`
RunKeepsLedger ==
    /\ pc = "start"
    /\ test_df' = Tail_n(daily_df, lookback_days)
    /\ in_position' = FALSE
    /\ entry_price' = 0
    /\ entry_date' = None
    /\ stop_loss' = 0
    /\ target' = 0
    /\ i' = 1
    /\ calls' = calls + 1
    /\ pc' = "loop"
    /\ UNCHANGED <<daily_df, lookback_days, trades, metrics>>
    /\ UNCHANGED notBT

\* run() up to the first iteration of the replay loop
Run ==
    /\ pc = "start"
    /\ test_df' = Tail_n(daily_df, lookback_days)
    /\ trades' = <<>>
    /\ in_position' = FALSE
    /\ entry_price' = 0
    /\ entry_date' = None
    /\ stop_loss' = 0
    /\ target' = 0
    /\ i' = 1
    /\ calls' = calls + 1
    /\ pc' = "loop"
    /\ UNCHANGED <<daily_df, lookback_days, metrics>>
    /\ UNCHANGED notBT

InLoop == pc = "loop" /\ i <= Len(test_df)
row == test_df[i].row
row_name == test_df[i].date
Invalid(r) == isna(r.signal) \/ isna(r.Close)

\* variant: a bar with undefined signal or Close still runs the exit tests
SkipBarChecksExit ==
    /\ InLoop
    /\ Invalid(row)
    /\ LET x == ExitDecision(row, stop_loss, target) IN
       IF in_position /\ Truthy(x.price)
       THEN /\ trades' = Append(trades, Trade(entry_date, row_name, entry_price,
                                              x.price, stop_loss, target, x.reason))
            /\ in_position' = FALSE
            /\ entry_price' = 0
            /\ entry_date' = None
            /\ stop_loss' = 0
            /\ target' = 0
       ELSE UNCHANGED <<in_position, entry_price, entry_date, stop_loss, target, trades>>
    /\ i' = i + 1
    /\ UNCHANGED <<calls, daily_df, lookback_days, test_df, metrics, pc>>
    /\ UNCHANGED notBT

\* a bar with undefined signal or Close: continue
SkipBar ==
    /\ InLoop
    /\ Invalid(row)
    /\ i' = i + 1
    /\ UNCHANGED <<calls, daily_df, lookback_days, test_df, in_position, entry_price,
                   entry_date, stop_loss, target, trades, metrics, pc>>
    /\ UNCHANGED notBT

\* variant: entry without the `continue`, so the entry bar also runs the
\* exit block
EnterBarNoContinue ==
    /\ InLoop
    /\ ~Invalid(row)
    /\ ~in_position /\ row.signal = 1
    /\ LET sl == RowGet(row, "stop_loss", FallbackStop(row.Close))
           tg == RowGet(row, "target", FallbackTarget(row.Close))
           x == ExitDecision(row, sl, tg)
       IN  IF Truthy(x.price)
           THEN /\ trades' = Append(trades, Trade(row_name, row_name, row.Close,
                                                  x.price, sl, tg, x.reason))
                /\ UNCHANGED <<in_position, entry_price, entry_date, stop_loss, target>>
           ELSE /\ in_position' = TRUE
                /\ entry_price' = row.Close
                /\ entry_date' = row_name
                /\ stop_loss' = sl
                /\ target' = tg
                /\ UNCHANGED trades
    /\ i' = i + 1
    /\ UNCHANGED <<calls, daily_df, lookback_days, test_df, metrics, pc>>
    /\ UNCHANGED notBT

\* entry: buy signal while flat, then continue
EnterBar ==
    /\ InLoop
    /\ ~Invalid(row)
    /\ ~in_position /\ row.signal = 1
    /\ in_position' = TRUE
    /\ entry_price' = row.Close
    /\ entry_date' = row_name
    /\ stop_loss' = RowGet(row, "stop_loss", FallbackStop(row.Close))
    /\ target' = RowGet(row, "target", FallbackTarget(row.Close))
    /\ i' = i + 1
    /\ UNCHANGED <<calls, daily_df, lookback_days, test_df, trades, metrics, pc>>
    /\ UNCHANGED notBT

\* flat and no buy signal: nothing to do on this bar
IdleBar ==
    /\ InLoop
    /\ ~Invalid(row)
    /\ ~in_position /\ row.signal # 1
    /\ i' = i + 1
    /\ UNCHANGED <<calls, daily_df, lookback_days, test_df, in_position, entry_price,
                   entry_date, stop_loss, target, trades, metrics, pc>>
    /\ UNCHANGED notBT

\* in position and an exit was chosen: record the trade, reset the position
ExitBar ==
    /\ InLoop
    /\ ~Invalid(row)
    /\ in_position
    /\ LET x == ExitDecision(row, stop_loss, target) IN
        /\ Truthy(x.price)
        /\ trades' = Append(trades, Trade(entry_date, row_name, entry_price,
                                          x.price, stop_loss, target, x.reason))
    /\ in_position' = FALSE
    /\ entry_price' = 0
    /\ entry_date' = None
    /\ stop_loss' = 0
    /\ target' = 0
    /\ i' = i + 1
    /\ UNCHANGED <<calls, daily_df, lookback_days, test_df, metrics, pc>>
    /\ UNCHANGED notBT

\* variant: a bar that leaves the position open moves the exit levels to
\* its own stop_loss / target
HoldBarTrailing ==
    /\ InLoop
    /\ ~Invalid(row)
    /\ in_position
    /\ ~Truthy(ExitDecision(row, stop_loss, target).price)
    /\ stop_loss' = RowGet(row, "stop_loss", stop_loss)
    /\ target' = RowGet(row, "target", target)
    /\ i' = i + 1
    /\ UNCHANGED <<calls, daily_df, lookback_days, test_df, in_position, entry_price,
                   entry_date, trades, metrics, pc>>
    /\ UNCHANGED notBT

\* in position and no exit price: the position stays open
HoldBar ==
    /\ InLoop
    /\ ~Invalid(row)
    /\ in_position
    /\ ~Truthy(ExitDecision(row, stop_loss, target).price)
    /\ i' = i + 1
    /\ UNCHANGED <<calls, daily_df, lookback_days, test_df, in_position, entry_price,
                   entry_date, stop_loss, target, trades, metrics, pc>>
    /\ UNCHANGED notBT

\* variant: no end-of-window flush
FinishNoFlush ==
    /\ pc = "loop" /\ i > Len(test_df)
    /\ metrics' = CalculateMetrics(trades)
    /\ pc' = "done"
    /\ UNCHANGED <<calls, daily_df, lookback_days, test_df, i, in_position, entry_price,
                   entry_date, stop_loss, target, trades>>
    /\ UNCHANGED notBT

\* variant: the flush dated at the last processed (valid) bar's predecessor,
\* i.e. at the entry date
FinishEntryDated ==
    /\ pc = "loop" /\ i > Len(test_df)
    /\ LET last_row == test_df[Len(test_df)]
           flushed == IF in_position
                      THEN Append(trades, Trade(entry_date, entry_date, entry_price,
                                                last_row.row.Close, stop_loss, target,
                                                "end_of_period"))
                      ELSE trades
       IN  /\ trades' = flushed
           /\ metrics' = CalculateMetrics(flushed)
    /\ pc' = "done"
    /\ UNCHANGED <<calls, daily_df, lookback_days, test_df, i, in_position, entry_price,
                   entry_date, stop_loss, target>>
    /\ UNCHANGED notBT

\* after the loop: close an open position at the last Close, compute the
\* metrics, return
Finish ==
    /\ pc = "loop" /\ i > Len(test_df)
    /\ LET last_row == test_df[Len(test_df)]
           flushed == IF in_position
                      THEN Append(trades, Trade(entry_date, last_row.date, entry_price,
                                                last_row.row.Close, stop_loss, target,
                                                "end_of_period"))
                      ELSE trades
       IN  /\ trades' = flushed
           /\ metrics' = CalculateMetrics(flushed)
    /\ pc' = "done"
    /\ UNCHANGED <<calls, daily_df, lookback_days, test_df, i, in_position, entry_price,
                   entry_date, stop_loss, target>>
    /\ UNCHANGED notBT

\* ---- run() called again on the same backtester -------------------------

MaxRuns == 2

\* rows of the tables the backtester is run on repeatedly: a quiet bar with
\* a buy signal, a wide bar with a sell signal, a bar with undefined signal
RerunRows ==
    { WithLevels([signal |-> 1, Low |-> 40, High |-> 40, Close |-> 40], TRUE),
      WithLevels([signal |-> 0, Low |-> 20, High |-> 60, Close |-> 40], TRUE),
      WithLevels([signal |-> NaN, Low |-> 20, High |-> 60, Close |-> 40], TRUE) }

RerunTables == { Dated(t) : t \in SeqsUpTo(RerunRows, MaxBars) }

RerunInit ==
    /\ daily_df \in RerunTables
    /\ lookback_days \in {MinLookback, DefaultLookback}
    /\ test_df = <<>>
    /\ i = 0
    /\ in_position = FALSE
    /\ entry_price = 0
    /\ entry_date = None
    /\ stop_loss = 0
    /\ target = 0
    /\ trades = <<>>
    /\ metrics = EmptyDict
    /\ calls = 0
    /\ StratIdle /\ OptIdle /\ ScanIdle
    /\ pc = "start"

\* the caller, holding the result of one run(), calls run() again with a
\* table and a lookback of its choice; the object is as the last call left it
RunAgain ==
    /\ pc = "done"
    /\ calls < MaxRuns
    /\ daily_df' \in RerunTables
    /\ lookback_days' \in {MinLookback, DefaultLookback}
    /\ pc' = "start"
    /\ UNCHANGED <<calls, test_df, i, in_position, entry_price, entry_date,
                   stop_loss, target, trades, metrics>>
    /\ UNCHANGED notBT

RerunNext ==
    \/ Run \/ SkipBar \/ EnterBar \/ IdleBar \/ ExitBar \/ HoldBar \/ Finish
    \/ RunAgain

SpecRerun == RerunInit /\ [][RerunNext]_vars

\* ---- _calculate_metrics on its own -------------------------------------

MaxLedger == 3

\* k-th trade of a ledger: entered at 40 with stop 20 and target 80, closed
\* at the target, at the stop, by a signal exit above, at or below entry, or
\* (the last trade only) at the end of a window whose last Close is undefined
LedgerTrade(k, kind) ==
    CASE kind = "target" -> Trade(2 * k - 1, 2 * k, 40, 80, 20, 80, "target")
      [] kind = "stop" -> Trade(2 * k - 1, 2 * k, 40, 20, 20, 80, "stop_loss")
      [] kind = "up" -> Trade(2 * k - 1, 2 * k, 40, 60, 20, 80, "signal_exit")
      [] kind = "flat" -> Trade(2 * k - 1, 2 * k, 40, 40, 20, 80, "signal_exit")
      [] kind = "down" -> Trade(2 * k - 1, 2 * k, 40, 30, 20, 80, "signal_exit")
      [] kind = "undefined" -> Trade(2 * k - 1, 2 * k, 40, NaN, 20, 80, "end_of_period")

Ledgers ==
    {<<>>} \cup
    { [k \in 1..Len(ks) |-> LedgerTrade(k, ks[k])] :
        ks \in { q \in SeqsUpTo({"target", "stop", "up", "flat", "down", "undefined"},
                                MaxLedger) :
                   \A k \in 1..Len(q) - 1 : q[k] # "undefined" } }

MetricsInit ==
    /\ daily_df = <<>>
    /\ lookback_days = DefaultLookback
    /\ test_df = <<>>
    /\ i = 0
    /\ in_position = FALSE
    /\ entry_price = 0
    /\ entry_date = None
    /\ stop_loss = 0
    /\ target = 0
    /\ trades \in Ledgers
    /\ metrics = EmptyDict
    /\ calls = 0
    /\ StratIdle /\ OptIdle /\ ScanIdle
    /\ pc = "metrics_start"

\* self.metrics = self._calculate_metrics(test_df)
CalcMetrics ==
    /\ pc = "metrics_start"
    /\ metrics' = CalculateMetrics(trades)
    /\ pc' = "metrics_done"
    /\ UNCHANGED <<calls, daily_df, lookback_days, test_df, i, in_position, entry_price,
                   entry_date, stop_loss, target, trades>>
    /\ UNCHANGED notBT

MetricsNext == CalcMetrics

SpecMetrics == MetricsInit /\ [][MetricsNext]_vars

BTNext == Run \/ SkipBar \/ EnterBar \/ IdleBar \/ ExitBar \/ HoldBar \/ Finish

SpecBT == BTInit /\ [][BTNext]_vars

----------------------------------------------------------------------------
\* What one run of the pipeline (calculate_full, check_convergence,
\* StrategyBacktester.run) hands to the optimizer and to the scanner: it
\* raises, or it yields a convergence flag and the metrics of a ledger.  The
\* ledgers are drawn from a family of ledgers the replay produces.

MinTrades == 3

\* k-th trade of a sample ledger: entered at 40 with stop 20 and target 60,
\* closed at the target ("W") or at the stop ("L")
SampleTrade(k, kind) ==
    IF kind = "W" THEN Trade(2 * k - 1, 2 * k, 40, 60, 20, 60, "target")
    ELSE Trade(2 * k - 1, 2 * k, 40, 20, 20, 60, "stop_loss")

SampleLedger(kinds) == [k \in 1..Len(kinds) |-> SampleTrade(k, kinds[k])]

PipelineLedgers ==
    { SampleLedger(ks) : ks \in { <<>>, <<"W", "L">>, <<"W", "W", "L">>,
                                  <<"W", "L", "L">>, <<"W", "W", "W">>,
                                  <<"L", "L", "L">> } }

\* the metrics fields both result rows copy
RowMetrics(m) ==
    [total_trades |-> m.total_trades, win_rate |-> m.win_rate,
     win_rate_adjusted |-> m.win_rate_adjusted, profit_factor |-> m.profit_factor,
     total_return |-> m.total_return, expectancy |-> m.expectancy]

----------------------------------------------------------------------------
\* StrategyOptimizer

ParamGrids ==
    { <<>>,
      << [name |-> "swing_length", values |-> <<3, 5, 8>>] >>,
      << [name |-> "upper", values |-> <<15, 20>>],
         [name |-> "under", values |-> <<25, 30>>] >>,
      << [name |-> "upper", values |-> <<15, 20>>],
         [name |-> "ema", values |-> <<>>] >> }

Metrics == {"profit_factor", "win_rate", "total_return"}

RECURSIVE Flatten(_)
Flatten(ss) == IF ss = <<>> THEN <<>> ELSE Head(ss) \o Flatten(Tail(ss))

RECURSIVE ProductLastSlowest(_)
\* variant: the first list varies fastest
ProductLastSlowest(lists) ==
    IF lists = <<>> THEN << <<>> >>
    ELSE LET n == Len(lists)
             rest == ProductLastSlowest(SubSeq(lists, 1, n - 1))
         IN  Flatten([a \in 1..Len(lists[n]) |->
                        [b \in 1..Len(rest) |-> Append(rest[b], lists[n][a])]])

RECURSIVE Product(_)
\* list(itertools.product(*lists)): the last list varies fastest
Product(lists) ==
    IF lists = <<>> THEN << <<>> >>
    ELSE LET rest == Product(Tail(lists))
         IN  Flatten([a \in 1..Len(Head(lists)) |->
                        [b \in 1..Len(rest) |-> <<Head(lists)[a]>> \o rest[b]]])

Combinations(grid) == Product([j \in 1..Len(grid) |-> grid[j].values])

ParamNames(grid) == { grid[j].name : j \in 1..Len(grid) }

\* dict(zip(param_names, combo))
ZipParams(grid, combo) ==
    [n \in ParamNames(grid) |->
        combo[CHOOSE j \in 1..Len(grid) : grid[j].name = n]]

OptRow(params, has_conv, m) ==
    [params |-> params, convergence |-> has_conv, metrics |-> RowMetrics(m)]

\* results_df[results_df['total_trades'] >= 3]
EnoughTrades(rows) == SelectSeq(rows, LAMBDA r : r.metrics.total_trades >= MinTrades)

\* variant: ascending order
SortedByMetricAscending(rows, key) ==
    { [k \in 1..Len(rows) |-> rows[p[k]]] :
        p \in { q \in Permutations(1..Len(rows)) :
                  \A a, b \in 1..Len(rows) :
                      a < b => RLe(rows[q[a]].metrics[key], rows[q[b]].metrics[key]) } }

\* sort_values(key, ascending=False): every arrangement of the rows in
\* non-increasing key order (the default sort is not stable, so the order
\* inside a tie is not fixed)
SortedByMetric(rows, key) ==
    { [k \in 1..Len(rows) |-> rows[p[k]]] :
        p \in { q \in Permutations(1..Len(rows)) :
                  \A a, b \in 1..Len(rows) :
                      a < b => RGe(rows[q[a]].metrics[key], rows[q[b]].metrics[key]) } }

OptInit ==
    /\ param_grid \in ParamGrids
    /\ metric \in Metrics
    /\ combo_i = 0
    /\ results = <<>>
    /\ evaluated = <<>>
    /\ best_params = EmptyDict
    /\ results_df = <<>>
    /\ BTIdle /\ StratIdle /\ ScanIdle
    /\ pc = "opt_start"

\* optimize() up to the first combination
OptStart ==
    /\ pc = "opt_start"
    /\ results' = <<>>
    /\ combo_i' = 1
    /\ pc' = "opt_loop"
    /\ UNCHANGED <<param_grid, metric, evaluated, best_params, results_df>>
    /\ UNCHANGED notOpt

InOptLoop == pc = "opt_loop" /\ combo_i <= Len(Combinations(param_grid))
params == ZipParams(param_grid, Combinations(param_grid)[combo_i])

\* one combination whose pipeline runs through: its row is appended
EvalCombination ==
    /\ InOptLoop
    /\ \E ledger \in PipelineLedgers, has_conv \in BOOLEAN :
          results' = Append(results, OptRow(params, has_conv, CalculateMetrics(ledger)))
    /\ evaluated' = Append(evaluated, [params |-> params, instance |-> Len(evaluated) + 1,
                                       raised |-> FALSE])
    /\ combo_i' = combo_i + 1
    /\ UNCHANGED <<param_grid, metric, best_params, results_df, pc>>
    /\ UNCHANGED notOpt

\* variant: an exception leaves the loop
FailCombinationBreaks ==
    /\ InOptLoop
    /\ evaluated' = Append(evaluated, [params |-> params, instance |-> Len(evaluated) + 1,
                                       raised |-> TRUE])
    /\ combo_i' = Len(Combinations(param_grid)) + 1
    /\ UNCHANGED <<param_grid, metric, results, best_params, results_df, pc>>
    /\ UNCHANGED notOpt

\* one combination whose constructor or pipeline raises: except, continue
FailCombination ==
    /\ InOptLoop
    /\ evaluated' = Append(evaluated, [params |-> params, instance |-> Len(evaluated) + 1,
                                       raised |-> TRUE])
    /\ combo_i' = combo_i + 1
    /\ UNCHANGED <<param_grid, metric, results, best_params, results_df, pc>>
    /\ UNCHANGED notOpt

OptLoopDone == pc = "opt_loop" /\ combo_i > Len(Combinations(param_grid))

\* no row at all: return {}, empty table
ReturnNoResult ==
    /\ OptLoopDone
    /\ results = <<>>
    /\ best_params' = EmptyDict
    /\ results_df' = <<>>
    /\ pc' = "opt_done"
    /\ UNCHANGED <<param_grid, metric, combo_i, results, evaluated>>
    /\ UNCHANGED notOpt

\* variant: the filtered (empty) table is returned
ReturnTooFewTradesFiltered ==
    /\ OptLoopDone
    /\ results # <<>>
    /\ EnoughTrades(results) = <<>>
    /\ best_params' = EmptyDict
    /\ results_df' = EnoughTrades(results)
    /\ pc' = "opt_done"
    /\ UNCHANGED <<param_grid, metric, combo_i, results, evaluated>>
    /\ UNCHANGED notOpt

\* rows, but none with 3 trades: return {}, all rows
ReturnTooFewTrades ==
    /\ OptLoopDone
    /\ results # <<>>
    /\ EnoughTrades(results) = <<>>
    /\ best_params' = EmptyDict
    /\ results_df' = results
    /\ pc' = "opt_done"
    /\ UNCHANGED <<param_grid, metric, combo_i, results, evaluated>>
    /\ UNCHANGED notOpt

\* filter, sort, take the first row
ReturnBest ==
    /\ OptLoopDone
    /\ EnoughTrades(results) # <<>>
    /\ \E sorted \in SortedByMetric(EnoughTrades(results), metric) :
          /\ results_df' = sorted
          /\ best_params' = sorted[1].params
    /\ pc' = "opt_done"
    /\ UNCHANGED <<param_grid, metric, combo_i, results, evaluated>>
    /\ UNCHANGED notOpt

OptNext ==
    \/ OptStart \/ EvalCombination \/ FailCombination
    \/ ReturnNoResult \/ ReturnTooFewTrades \/ ReturnBest

SpecOpt == OptInit /\ [][OptNext]_vars

----------------------------------------------------------------------------
\* MultiAssetScanner

MaxTickers == 3

MinBars == 100

DefaultMinWinRate == 50

DefaultMinProfitFactor == Rat(3, 2)

\* the ticker lists: the first n of a catalogue, n = 0 .. MaxTickers
TickerLists == { [k \in 1..n |-> k] : n \in 0..MaxTickers }

\* what get_daily_data / get_weekly_data return: None, or a series of which
\* only the length is read here
DailyFetches == {None, MinBars - 1, MinBars}
WeeklyFetches == {None, 1}

ScanThresholds ==
    { [min_win_rate |-> RInt(DefaultMinWinRate), min_profit_factor |-> DefaultMinProfitFactor],
      [min_win_rate |-> RZero, min_profit_factor |-> RZero] }

ScanRow(ticker, has_conv, m) ==
    [ticker |-> ticker, convergence |-> has_conv, metrics |-> RowMetrics(m)]

\* daily_data is None or weekly_data is None or len(daily_data) < 100
Unusable(daily, weekly) == daily = None \/ weekly = None \/ daily < MinBars

\* variant: the filter without the profit-factor criterion
PassesFilterNoProfitFactor(r) ==
    /\ r.metrics.total_trades >= MinTrades
    /\ RGe(r.metrics.win_rate, min_win_rate)

\* rows that meet the three minimum criteria
PassesFilter(r) ==
    /\ r.metrics.total_trades >= MinTrades
    /\ RGe(r.metrics.win_rate, min_win_rate)
    /\ RGe(r.metrics.profit_factor, min_profit_factor)

\* convergence.astype(int) * 100 + profit_factor * 10 + win_rate
Score(r) ==
    RAdd(RInt(IF r.convergence THEN 100 ELSE 0),
         RAdd(RMul(r.metrics.profit_factor, RInt(10)), r.metrics.win_rate))

WithScore(r) ==
    [ticker |-> r.ticker, convergence |-> r.convergence, metrics |-> r.metrics,
     score |-> Score(r)]

\* variant: the ranking is ascending
SortedByScoreAscending(rows) ==
    { [k \in 1..Len(rows) |-> rows[p[k]]] :
        p \in { q \in Permutations(1..Len(rows)) :
                  \A a, b \in 1..Len(rows) :
                      a < b => RLe(rows[q[a]].score, rows[q[b]].score) } }

\* sort_values('score', ascending=False), ties in any order
SortedByScore(rows) ==
    { [k \in 1..Len(rows) |-> rows[p[k]]] :
        p \in { q \in Permutations(1..Len(rows)) :
                  \A a, b \in 1..Len(rows) :
                      a < b => RGe(rows[q[a]].score, rows[q[b]].score) } }

ScanInit ==
    /\ tickers \in TickerLists
    /\ \E th \in ScanThresholds :
          /\ min_win_rate = th.min_win_rate
          /\ min_profit_factor = th.min_profit_factor
    /\ scan_i = 0
    /\ scan_results = <<>>
    /\ successful = 0
    /\ failed = 0
    /\ scan_log = <<>>
    /\ scan_df = <<>>
    /\ BTIdle /\ StratIdle /\ OptIdle
    /\ pc = "scan_start"

\* scan() up to the first ticker
ScanStart ==
    /\ pc = "scan_start"
    /\ scan_results' = <<>>
    /\ successful' = 0
    /\ failed' = 0
    /\ scan_i' = 1
    /\ pc' = "scan_loop"
    /\ UNCHANGED <<tickers, min_win_rate, min_profit_factor, scan_log, scan_df>>
    /\ UNCHANGED notScan

InScanLoop == pc = "scan_loop" /\ scan_i <= Len(tickers)
ticker == tickers[scan_i]

\* variant: a skipped ticker is not counted
SkipTickerUncounted ==
    /\ InScanLoop
    /\ \E daily \in DailyFetches, weekly \in WeeklyFetches :
          /\ Unusable(daily, weekly)
          /\ scan_log' = Append(scan_log, [ticker |-> ticker, daily |-> daily,
                                           weekly |-> weekly, raised |-> FALSE])
    /\ scan_i' = scan_i + 1
    /\ UNCHANGED <<tickers, min_win_rate, min_profit_factor, scan_results,
                   successful, failed, scan_df, pc>>
    /\ UNCHANGED notScan

\* a fetch came back absent, or the daily series is too short: count, continue
SkipTicker ==
    /\ InScanLoop
    /\ \E daily \in DailyFetches, weekly \in WeeklyFetches :
          /\ Unusable(daily, weekly)
          /\ scan_log' = Append(scan_log, [ticker |-> ticker, daily |-> daily,
                                           weekly |-> weekly, raised |-> FALSE])
    /\ failed' = failed + 1
    /\ scan_i' = scan_i + 1
    /\ UNCHANGED <<tickers, min_win_rate, min_profit_factor, scan_results,
                   successful, scan_df, pc>>
    /\ UNCHANGED notScan

\* the pipeline of a fetched ticker raises: except, count, continue
FailTicker ==
    /\ InScanLoop
    /\ \E daily \in DailyFetches, weekly \in WeeklyFetches :
          /\ ~Unusable(daily, weekly)
          /\ scan_log' = Append(scan_log, [ticker |-> ticker, daily |-> daily,
                                           weekly |-> weekly, raised |-> TRUE])
    /\ failed' = failed + 1
    /\ scan_i' = scan_i + 1
    /\ UNCHANGED <<tickers, min_win_rate, min_profit_factor, scan_results,
                   successful, scan_df, pc>>
    /\ UNCHANGED notScan

\* the pipeline of a fetched ticker runs through: its row is appended
ScanTicker ==
    /\ InScanLoop
    /\ \E daily \in DailyFetches, weekly \in WeeklyFetches :
          /\ ~Unusable(daily, weekly)
          /\ scan_log' = Append(scan_log, [ticker |-> ticker, daily |-> daily,
                                           weekly |-> weekly, raised |-> FALSE])
    /\ \E ledger \in PipelineLedgers, has_conv \in BOOLEAN :
          scan_results' = Append(scan_results,
                                 ScanRow(ticker, has_conv, CalculateMetrics(ledger)))
    /\ successful' = successful + 1
    /\ scan_i' = scan_i + 1
    /\ UNCHANGED <<tickers, min_win_rate, min_profit_factor, failed, scan_df, pc>>
    /\ UNCHANGED notScan

ScanLoopDone == pc = "scan_loop" /\ scan_i > Len(tickers)

\* after the loop, nothing collected: the empty table
ReturnNothingScanned ==
    /\ ScanLoopDone
    /\ scan_results = <<>>
    /\ scan_df' = <<>>
    /\ pc' = "scan_done"
    /\ UNCHANGED <<tickers, min_win_rate, min_profit_factor, scan_i, scan_results,
                   successful, failed, scan_log>>
    /\ UNCHANGED notScan

\* variant: the filtered table is returned even when it is empty
ReturnFilteredEmpty ==
    /\ ScanLoopDone
    /\ scan_results # <<>>
    /\ SelectSeq(scan_results, PassesFilter) = <<>>
    /\ scan_df' = SelectSeq(scan_results, PassesFilter)
    /\ pc' = "scan_done"
    /\ UNCHANGED <<tickers, min_win_rate, min_profit_factor, scan_i, scan_results,
                   successful, failed, scan_log>>
    /\ UNCHANGED notScan

\* after the loop, no row passes the filter: the unfiltered rows
ReturnUnfiltered ==
    /\ ScanLoopDone
    /\ scan_results # <<>>
    /\ SelectSeq(scan_results, PassesFilter) = <<>>
    /\ scan_df' = scan_results
    /\ pc' = "scan_done"
    /\ UNCHANGED <<tickers, min_win_rate, min_profit_factor, scan_i, scan_results,
                   successful, failed, scan_log>>
    /\ UNCHANGED notScan

\* after the loop, some row passes: the passing rows, scored and ranked
ReturnRanked ==
    /\ ScanLoopDone
    /\ SelectSeq(scan_results, PassesFilter) # <<>>
    /\ LET filtered_df == SelectSeq(scan_results, PassesFilter)
           scored == [k \in 1..Len(filtered_df) |-> WithScore(filtered_df[k])]
       IN  scan_df' \in SortedByScore(scored)
    /\ pc' = "scan_done"
    /\ UNCHANGED <<tickers, min_win_rate, min_profit_factor, scan_i, scan_results,
                   successful, failed, scan_log>>
    /\ UNCHANGED notScan

ScanNext ==
    \/ ScanStart \/ SkipTicker \/ FailTicker \/ ScanTicker
    \/ ReturnNothingScanned \/ ReturnUnfiltered \/ ReturnRanked

SpecScan == ScanInit /\ [][ScanNext]_vars

----------------------------------------------------------------------------
\* Properties of the replay

\* the bar of the window that carries date d
BarAt(d) == test_df[d - test_df[1].date + 1].row
LastBar == test_df[Len(test_df)]
DatesBetween(a, b) == { d \in 1..MaxBars + 1 : a < d /\ d < b }
Replaying == pc \in {"loop", "done"}
EndOfPeriodTrades == SelectSeq(trades, LAMBDA t : t.exit_reason = "end_of_period")

\* the exit the priority order of the specification prescribes for a bar
PrescribedExit(r, sl, tg) ==
    IF Le(r.Low, sl) THEN "stop_loss"
    ELSE IF Ge(r.High, tg) THEN "target"
    ELSE IF r.signal = 0 THEN "signal_exit"
    ELSE "open"

PrescribedPrice(reason, r, sl, tg) ==
    CASE reason = "stop_loss" -> sl
      [] reason = "target" -> tg
      [] OTHER -> r.Close

StaysOpen(a, b, sl, tg) ==
    \A d \in DatesBetween(a, b) :
        ~Invalid(BarAt(d)) => PrescribedExit(BarAt(d), sl, tg) = "open"

C2_SinglePosition ==
    Replaying =>
        /\ \A k \in 1..Len(trades) :
              /\ trades[k].entry_date <= trades[k].exit_date
              /\ trades[k].exit_reason # "end_of_period"
                    => trades[k].entry_date < trades[k].exit_date
              /\ k > 1 => trades[k].entry_date > trades[k - 1].exit_date
        /\ (pc = "loop" /\ in_position) =>
              /\ entry_date < test_df[1].date + i - 1
              /\ trades # <<>> => entry_date > trades[Len(trades)].exit_date

C2_Witness ==
    /\ pc = "done"
    /\ Len(trades) >= 2
    /\ trades[1].exit_reason \in {"stop_loss", "target", "signal_exit"}

\* C3: a position still open after the last bar is closed by exactly one
\* end_of_period trade, the last of the ledger, at the last bar's Close and
\* date; a replay that ends flat appends no end_of_period trade
C3_EndOfWindowFlush ==
    pc = "done" =>
        IF in_position
        THEN /\ Len(EndOfPeriodTrades) = 1
             /\ trades[Len(trades)].exit_reason = "end_of_period"
             /\ trades[Len(trades)].exit_price = LastBar.row.Close
             /\ trades[Len(trades)].exit_date = LastBar.date
             /\ trades[Len(trades)].entry_date = entry_date
        ELSE Len(EndOfPeriodTrades) = 0

C3_Witness ==
    /\ pc = "done" /\ in_position
    /\ Len(trades) >= 2
    /\ trades[Len(trades)].exit_reason = "end_of_period"

OneEndOfPeriodAtLastBar ==
    /\ Len(EndOfPeriodTrades) = 1
    /\ EndOfPeriodTrades[1].exit_date = LastBar.date

\* C4 as stated: a window whose last bar has signal 1 yields exactly one
\* end_of_period trade, dated at the last bar
C4_Original ==
    (pc = "done" /\ LastBar.row.signal = 1) => OneEndOfPeriodAtLastBar

ClosedOnLastBar ==
    /\ trades # <<>>
    /\ trades[Len(trades)].exit_date = LastBar.date
    /\ trades[Len(trades)].exit_reason \in {"stop_loss", "target"}

\* C4 amended: a window whose last bar has signal 1 and a defined Close
\* yields exactly one end_of_period trade, dated at the last bar, unless a
\* position opened earlier is closed on that bar by its stop or target, and
\* then it yields none
C4_EndsOpen ==
    (pc = "done" /\ LastBar.row.signal = 1 /\ ~isna(LastBar.row.Close)) =>
        IF ClosedOnLastBar THEN Len(EndOfPeriodTrades) = 0
        ELSE OneEndOfPeriodAtLastBar

C4_Witness ==
    /\ pc = "done"
    /\ LastBar.row.signal = 1 /\ ~isna(LastBar.row.Close)
    /\ ~ClosedOnLastBar
    /\ Len(trades) >= 1
    /\ trades[Len(trades)].entry_date < LastBar.date

----------------------------------------------------------------------------
\* Properties of the strategies

FullyDefined(r) == ~risna(r.stop_loss) /\ ~risna(r.target)

\* C5: generate_signals yields signal 0 or 1 on every row, and on every row
\* with both levels defined stop_loss < Close < target (so target - stop_loss > 0)
C5_SignalAndLevels ==
    (pc = "done" /\ strategy # NoStrategy) =>
        \A k \in 1..Len(table) :
            /\ table[k].signal \in {0, 1}
            /\ FullyDefined(table[k]) =>
                  /\ RGt(RAdd(table[k].target, RMul(RInt(0 - 1), table[k].stop_loss)), RZero)
                  /\ RLt(table[k].stop_loss, RInt(table[k].Close))
                  /\ RLt(RInt(table[k].Close), table[k].target)

LastOnly(df) == IF df = <<>> THEN <<>> ELSE <<df[Len(df)]>>
LastSignalIsOne(df) == df # <<>> /\ df[Len(df)].signal = 1
Returned == pc = "done" /\ DOMAIN verdict # {}

\* the numeric info fields read from one table, by the kind of their values
FractionFields(st, which) ==
    IF which = "daily"
    THEN CASE st.kind = "cacas" -> {"daily_mid", "daily_ema"}
           [] st.kind = "ma" -> {"daily_ema_fast", "daily_ema_slow", "daily_distance_pct"}
           [] st.kind = "mss" -> {}
    ELSE CASE st.kind = "cacas" -> {"weekly_mid", "weekly_ema"}
           [] st.kind = "ma" -> {"weekly_ema_fast", "weekly_ema_slow", "weekly_distance_pct"}
           [] st.kind = "mss" -> {}

PriceFields(st, which) ==
    IF st.kind # "mss" THEN {}
    ELSE IF which = "daily" THEN {"daily_swing_high", "daily_swing_low", "entry_price"}
    ELSE {"weekly_swing_high", "weekly_swing_low"}

ZeroFields(st, which) ==
    /\ \A f \in FractionFields(st, which) : verdict.extra[f] = RZero
    /\ \A f \in PriceFields(st, which) : verdict.extra[f] = 0

C6_WitnessEmpty ==
    /\ Returned
    /\ daily_signals = <<>> /\ LastSignalIsOne(weekly_signals)

----------------------------------------------------------------------------
\* Properties of the optimizer

RECURSIVE Radix(_, _)
\* number of combinations of the lists after the j-th
Radix(grid, j) ==
    IF j >= Len(grid) THEN 1 ELSE Len(grid[j + 1].values) * Radix(grid, j + 1)

\* the k-th element of the Cartesian product in enumeration order
ExpectedCombo(grid, k) ==
    [j \in 1..Len(grid) |->
        grid[j].values[(((k - 1) \div Radix(grid, j)) % Len(grid[j].values)) + 1]]

Optimizing == pc \in {"opt_loop", "opt_done"}
Ran == SelectSeq(evaluated, LAMBDA e : ~e.raised)
Survives(r) == r.metrics.total_trades >= 3
SomeSurvivor == \E k \in 1..Len(results) : Survives(results[k])
Occurrences(rows, r) == Cardinality({ k \in 1..Len(rows) : rows[k] = r })
Key(r) == r.metrics[metric]

\* C7: with a surviving combination, optimize returns exactly the evaluated
\* rows with total_trades >= 3, in non-increasing order of the metric, and
\* best_params are the parameters of the first row, whose metric no row exceeds
C7_RankedSurvivors ==
    (pc = "opt_done" /\ SomeSurvivor) =>
        /\ \A k \in 1..Len(results) :
              Occurrences(results_df, results[k]) =
                  IF Survives(results[k]) THEN Occurrences(results, results[k]) ELSE 0
        /\ \A k \in 1..Len(results_df) :
              Survives(results_df[k]) /\ Occurrences(results, results_df[k]) > 0
        /\ \A a, b \in 1..Len(results_df) :
              a < b => RGe(Key(results_df[a]), Key(results_df[b]))
        /\ best_params = results_df[1].params
        /\ \A k \in 1..Len(results_df) : ~RGt(Key(results_df[k]), Key(results_df[1]))

C7_Witness ==
    /\ pc = "opt_done"
    /\ Len(results_df) >= 2
    /\ Len(results) > Len(results_df)
    /\ RGt(Key(results_df[1]), Key(results_df[Len(results_df)]))
    /\ RGt(Key(results[Len(results)]), Key(results[1]))

\* C8: every element of the Cartesian product is evaluated exactly once, in
\* enumeration order, each with its own strategy instance; the results hold
\* one row per combination that did not raise, none for one that raised, and
\* a raising combination does not stop the loop
C8_ExhaustiveGrid ==
    Optimizing =>
        /\ Len(evaluated) =
              IF pc = "opt_done" THEN Radix(param_grid, 0) ELSE combo_i - 1
        /\ \A k \in 1..Len(evaluated) :
              /\ evaluated[k].params = ZipParams(param_grid, ExpectedCombo(param_grid, k))
              /\ \A m \in 1..Len(evaluated) :
                    m # k => evaluated[m].instance # evaluated[k].instance
        /\ Len(results) = Len(Ran)
        /\ \A k \in 1..Len(results) : results[k].params = Ran[k].params

C8_Witness ==
    /\ pc = "opt_done"
    /\ Len(param_grid) = 2
    /\ Len(evaluated) = 4
    /\ evaluated[2].raised /\ ~evaluated[3].raised /\ ~evaluated[1].raised

\* C9: with no surviving combination best_params is empty, and the returned
\* table is empty exactly when every combination failed; otherwise it holds
\* the rows of the combinations that ran
C9_EmptyResult ==
    (pc = "opt_done" /\ ~SomeSurvivor) =>
        /\ best_params = EmptyDict
        /\ results_df = <<>> <=> (\A k \in 1..Len(evaluated) : evaluated[k].raised)
        /\ results_df = results
        /\ Len(results_df) = Len(Ran)

C9_Witness ==
    /\ pc = "opt_done" /\ ~SomeSurvivor
    /\ Len(results_df) >= 2
    /\ \E k \in 1..Len(evaluated) : evaluated[k].raised

----------------------------------------------------------------------------
\* Properties of the scanner

Scanning == pc \in {"scan_loop", "scan_done"}

\* a processed ticker that must not contribute a row
MustFail(e) == e.daily = None \/ e.weekly = None \/ e.daily < 100 \/ e.raised
Scanned == SelectSeq(scan_log, LAMBDA e : ~MustFail(e))

\* C10: scan processes every ticker in order; a ticker with an absent fetch,
\* fewer than 100 daily bars or a raising pipeline adds no row and one
\* failure and the loop goes on; every other ticker adds exactly one row; so
\* successful + failed is the number of tickers processed and the number of
\* rows is successful
C10_ScanCounts ==
    Scanning =>
        /\ Len(scan_log) = IF pc = "scan_done" THEN Len(tickers) ELSE scan_i - 1
        /\ \A k \in 1..Len(scan_log) : scan_log[k].ticker = tickers[k]
        /\ failed = Len(SelectSeq(scan_log, MustFail))
        /\ successful = Len(Scanned)
        /\ successful + failed = Len(scan_log)
        /\ Len(scan_results) = successful
        /\ \A k \in 1..Len(scan_results) : scan_results[k].ticker = Scanned[k].ticker

C10_Witness ==
    /\ pc = "scan_done"
    /\ Len(tickers) = 3
    /\ scan_log[1].daily = None
    /\ scan_log[2].raised
    /\ ~MustFail(scan_log[3])

\* a collected row that meets the three minimum criteria of the call
Qualifies(r) ==
    /\ r.metrics.total_trades >= 3
    /\ RGe(r.metrics.win_rate, min_win_rate)
    /\ RGe(r.metrics.profit_factor, min_profit_factor)

Qualifying == { k \in 1..Len(scan_results) : Qualifies(scan_results[k]) }

ExpectedScore(r) ==
    RAdd(RAdd(RInt(IF r.convergence THEN 100 ELSE 0),
              RMul(RInt(10), r.metrics.profit_factor)),
         r.metrics.win_rate)

\* C11: when some collected row has total_trades >= 3, win_rate >=
\* min_win_rate and profit_factor >= min_profit_factor, scan returns exactly
\* the rows meeting all three, each with score = convergence * 100 +
\* profit_factor * 10 + win_rate, in non-increasing order of score
C11_RankedCandidates ==
    (pc = "scan_done" /\ Qualifying # {}) =>
        /\ Len(scan_df) = Cardinality(Qualifying)
        /\ \A j \in Qualifying :
              \E k \in 1..Len(scan_df) :
                  /\ scan_df[k].ticker = scan_results[j].ticker
                  /\ scan_df[k].convergence = scan_results[j].convergence
                  /\ scan_df[k].metrics = scan_results[j].metrics
        /\ \A k \in 1..Len(scan_df) :
              /\ Qualifies(scan_df[k])
              /\ scan_df[k].score = ExpectedScore(scan_df[k])
        /\ \A a, b \in 1..Len(scan_df) :
              a < b => RGe(scan_df[a].score, scan_df[b].score)

C11_Witness ==
    /\ pc = "scan_done"
    /\ Len(scan_df) >= 2
    /\ Len(scan_results) > Len(scan_df)
    /\ RGt(scan_df[1].score, scan_df[Len(scan_df)].score)
    /\ scan_df[1].ticker > scan_df[2].ticker
    /\ scan_df[1].convergence /\ ~scan_df[2].convergence

\* C12: when tickers were scanned but no row meets the criteria, scan returns
\* all collected rows, one per successfully scanned ticker; the returned table
\* is empty exactly when no ticker was scanned successfully
C12_UnfilteredFallback ==
    pc = "scan_done" =>
        /\ (successful > 0 /\ Qualifying = {}) =>
              /\ scan_df = scan_results
              /\ Len(scan_df) = successful
              /\ \A k \in 1..Len(scan_df) : scan_df[k].ticker = Scanned[k].ticker
        /\ scan_df = <<>> <=> successful = 0
        /\ scan_df = <<>> <=> Scanned = <<>>

C12_Witness ==
    /\ pc = "scan_done"
    /\ Qualifying = {}
    /\ successful >= 2 /\ failed >= 1
    /\ Len(scan_df) = successful
    /\ scan_df[1].metrics.total_trades >= 3

----------------------------------------------------------------------------
\* Properties of the metrics

CountFields == {"total_trades", "winners", "losers", "targets_hit", "stops_hit"}

RatioFields ==
    {"win_rate", "win_rate_adjusted", "total_return", "avg_return",
     "profit_factor", "max_drawdown", "sharpe_ratio", "expectancy",
     "avg_winner", "avg_loser", "largest_winner", "largest_loser",
     "avg_duration_days"}

\* C13: a run whose window produced no trade returns a metrics record whose
\* eighteen fields are all exactly 0, none undefined
C13_EmptyLedgerZeros ==
    (pc = "done" /\ trades = <<>>) =>
        /\ DOMAIN metrics = CountFields \cup RatioFields
        /\ \A f \in CountFields : metrics[f] = 0
        /\ \A f \in RatioFields : metrics[f] = [n |-> 0, d |-> 1]

C13_Witness ==
    /\ pc = "done"
    /\ trades = <<>>
    /\ Len(test_df) >= 2
    /\ metrics.total_trades = 0 /\ metrics.avg_return = [n |-> 0, d |-> 1]

RECURSIVE GrossPnl(_, _)
\* sum of pnl over the first k trades, winning ones (pnl > 0) or the others
GrossPnl(k, winning) ==
    IF k = 0 THEN 0
    ELSE GrossPnl(k - 1, winning)
         + (IF trades[k].pnl = NaN THEN 0
            ELSE IF (trades[k].pnl > 0) = winning THEN trades[k].pnl ELSE 0)

\* C14: for a non-empty ledger profit_factor is (sum of pnl over pnl > 0) /
\* |sum of pnl over pnl <= 0| when that gross loss is positive, and exactly 0
\* when it is 0, in particular when no trade loses
C14_ProfitFactor ==
    (pc = "metrics_done" /\ trades # <<>>) =>
        LET gross_profit == GrossPnl(Len(trades), TRUE)
            gross_loss == Abs(GrossPnl(Len(trades), FALSE))
            pf == metrics.profit_factor
        IN  /\ pf.d > 0
            /\ gross_loss > 0 => pf.n * gross_loss = gross_profit * pf.d
            /\ gross_loss = 0 => pf.n = 0

C14_Witness ==
    /\ pc = "metrics_done"
    /\ Len(trades) = 3
    /\ GrossPnl(3, TRUE) = 60
    /\ GrossPnl(3, FALSE) = 0 - 20
    /\ metrics.profit_factor = [n |-> 3, d |-> 1]

C14_WitnessNoLoss ==
    /\ pc = "metrics_done"
    /\ Len(trades) = 2
    /\ \A k \in 1..2 : trades[k].pnl > 0
    /\ metrics.profit_factor = [n |-> 0, d |-> 1]

----------------------------------------------------------------------------
\* Properties of calculate_full

AddedColumns(st) ==
    {"signal", "stop_loss", "target", "atr"} \cup
    CASE st.kind = "cacas" -> {"cacas_upper", "cacas_under", "cacas_mid", "ema"}
      [] st.kind = "ma" -> {"ema_fast", "ema_slow"}
      [] st.kind = "mss" -> {"swing_high", "swing_low", "last_swing_high",
                             "last_swing_low", "structure_line", "signal_type"}

\* C15: calculate_full leaves the caller's series as it was, same rows, same
\* columns, same values, for every strategy variant; the added columns are in
\* the returned table only
C15_InputUnchanged ==
    [][CalcFull =>
          /\ series' = series
          /\ Len(table') = Len(series)
          /\ \A k \in 1..Len(series) :
                /\ DOMAIN series'[k] = {"Low", "High", "Close"}
                /\ AddedColumns(strategy) \subseteq DOMAIN table'[k]
                /\ \A c \in DOMAIN series[k] : table'[k][c] = series[k][c]]_vars

C15_Witness ==
    /\ pc = "done"
    /\ strategy.kind = "mss"
    /\ Len(series) >= 3
    /\ Len(table) = Len(series)
    /\ \E k \in 1..Len(table) : table[k].signal = 1
    /\ "signal" \notin DOMAIN series[1]

----------------------------------------------------------------------------
\* Properties of the backtest window

WindowLen == IF Len(daily_df) > lookback_days THEN lookback_days ELSE Len(daily_df)
WindowDates == { daily_df[k].date : k \in (Len(daily_df) - WindowLen + 1)..Len(daily_df) }

\* C16: run replays the last lookback_days rows of the daily table, the whole
\* table when it is not longer; every entry and exit of every trade is on a
\* bar of that window, and the replay is flat with an empty ledger when it
\* reaches the window's first bar, whatever the rows before the window hold
C16_LookbackWindow ==
    Replaying =>
        /\ Len(test_df) = WindowLen
        /\ \A k \in 1..WindowLen :
              test_df[k] = daily_df[Len(daily_df) - WindowLen + k]
        /\ \A k \in 1..Len(trades) :
              /\ trades[k].entry_date \in WindowDates
              /\ trades[k].exit_date \in WindowDates
        /\ in_position => entry_date \in WindowDates
        /\ (pc = "loop" /\ i = 1) => (~in_position /\ trades = <<>>)

C16_Witness ==
    /\ pc = "done"
    /\ Len(daily_df) = 3 /\ lookback_days = 2
    /\ daily_df[1].row.signal = 1 /\ ~isna(daily_df[1].row.Close)
    /\ daily_df[2].row.signal = 0
    /\ daily_df[3].row.signal = 1 /\ ~isna(daily_df[3].row.Close)
    /\ Len(trades) = 1
    /\ trades[1].entry_date = 3

----------------------------------------------------------------------------
\* Properties of repeated runs

\* what a backtester that has never run before does with one bar
FlatPosition ==
    [open |-> FALSE, price |-> 0, date |-> None, sl |-> 0, tg |-> 0, ledger |-> <<>>]

FreshStep(p, bar) ==
    LET r == bar.row IN
    IF isna(r.signal) \/ isna(r.Close) THEN p
    ELSE IF ~p.open
    THEN IF r.signal = 1
         THEN [open |-> TRUE, price |-> r.Close, date |-> bar.date,
               sl |-> IF "stop_loss" \in DOMAIN r THEN r.stop_loss
                      ELSE (r.Close * 95) \div 100,
               tg |-> IF "target" \in DOMAIN r THEN r.target
                      ELSE (r.Close * 110) \div 100,
               ledger |-> p.ledger]
         ELSE p
    ELSE LET reason == PrescribedExit(r, p.sl, p.tg) IN
         IF reason = "open" THEN p
         ELSE [FlatPosition EXCEPT
                 !.ledger = Append(p.ledger,
                                   Trade(p.date, bar.date, p.price,
                                         PrescribedPrice(reason, r, p.sl, p.tg),
                                         p.sl, p.tg, reason))]

RECURSIVE FreshReplay(_, _)
FreshReplay(df, k) ==
    IF k = 0 THEN FlatPosition ELSE FreshStep(FreshReplay(df, k - 1), df[k])

\* the ledger a freshly constructed backtester returns for these inputs
FreshLedger(df, n) ==
    LET w == IF Len(df) > n THEN SubSeq(df, Len(df) - n + 1, Len(df)) ELSE df
        p == FreshReplay(w, Len(w))
    IN  IF p.open
        THEN Append(p.ledger, Trade(p.date, w[Len(w)].date, p.price,
                                    w[Len(w)].row.Close, p.sl, p.tg, "end_of_period"))
        ELSE p.ledger

\* C17: whatever runs the backtester has made before, the ledger and the
\* metrics a run returns are those of a fresh backtester on the same table
\* and lookback, and a run starts flat with an empty ledger: no trade and no
\* open position of an earlier run is carried over
C17_RebuiltEachRun ==
    /\ pc = "done" =>
          /\ trades = FreshLedger(daily_df, lookback_days)
          /\ metrics = CalculateMetrics(FreshLedger(daily_df, lookback_days))
    /\ (pc = "loop" /\ i = 1) => (trades = <<>> /\ ~in_position)

C17_Witness ==
    /\ pc = "done"
    /\ calls >= 2
    /\ Len(daily_df) >= 2
    /\ Len(trades) = 1
    /\ trades[1].exit_reason = "end_of_period"

----------------------------------------------------------------------------
\* Properties of entries and of skipped bars

\* the exit levels a bar supplies to a position opened on it
EntryStop(r) == IF "stop_loss" \in DOMAIN r THEN r.stop_loss ELSE (r.Close * 95) \div 100
EntryTarget(r) == IF "target" \in DOMAIN r THEN r.target ELSE (r.Close * 110) \div 100

Usable(r) == ~isna(r.signal) /\ ~isna(r.Close)

\* C18: a position opens exactly on a bar with defined signal and Close and
\* signal = 1 that is reached while flat; it takes that bar's Close as
\* entry_price and that bar's stop_loss / target as exit levels; the levels
\* and the entry stay as captured while the position is open, every later
\* bar is judged against them and an exit by stop or target is priced at
\* them, and the trade records them
C18_EntryAndFixedLevels ==
    [][/\ (~in_position /\ in_position') <=>
             (InLoop /\ ~in_position /\ Usable(row) /\ row.signal = 1)
       /\ (~in_position /\ in_position') =>
             /\ entry_price' = row.Close
             /\ entry_date' = row_name
             /\ stop_loss' = EntryStop(row)
             /\ target' = EntryTarget(row)
       /\ (in_position /\ in_position') =>
             UNCHANGED <<entry_price, entry_date, stop_loss, target>>
       /\ (in_position /\ InLoop /\ Usable(row)) =>
             (in_position' <=> PrescribedExit(row, stop_loss, target) = "open")
       /\ Len(trades') > Len(trades) =>
             LET t == trades'[Len(trades')] IN
             /\ in_position
             /\ t.entry_price = entry_price /\ t.entry_date = entry_date
             /\ t.stop_loss = stop_loss /\ t.target = target
             /\ t.exit_reason = "stop_loss" =>
                   (t.exit_price = stop_loss /\ Le(row.Low, stop_loss))
             /\ t.exit_reason = "target" =>
                   (t.exit_price = target /\ Ge(row.High, target))
      ]_vars

C18_Witness ==
    /\ pc = "done"
    /\ Len(trades) = 1
    /\ trades[1].exit_reason \in {"stop_loss", "target"}
    /\ trades[1].exit_date = trades[1].entry_date + 2
    /\ LET x == BarAt(trades[1].exit_date)
           e == BarAt(trades[1].entry_date)
       IN  /\ "stop_loss" \in DOMAIN x
           /\ ~isna(x.stop_loss) /\ ~isna(x.target)
           /\ x.stop_loss # trades[1].stop_loss
           /\ x.target # trades[1].target
           /\ e.stop_loss = trades[1].stop_loss
           /\ e.target = trades[1].target

\* C19: a bar whose signal or Close is undefined opens nothing and closes
\* nothing, even when its Low is at or below the stop or its High at or
\* above the target of the open position: position flag, entry price, entry
\* date, captured stop and target and the ledger are after the bar what they
\* were before it, and the replay moves on to the next bar
C19_UndefinedBarSkipped ==
    [][(InLoop /\ ~Usable(row)) =>
          /\ in_position' = in_position
          /\ entry_price' = entry_price
          /\ entry_date' = entry_date
          /\ stop_loss' = stop_loss
          /\ target' = target
          /\ trades' = trades
          /\ i' = i + 1
      ]_vars

C19_Witness ==
    /\ pc = "loop"
    /\ i = 3
    /\ in_position
    /\ entry_date = test_df[1].date
    /\ ~Usable(test_df[2].row)
    /\ Le(test_df[2].row.Low, stop_loss)
    /\ trades = <<>>

C19_WitnessFlat ==
    /\ pc = "loop"
    /\ i = 2
    /\ ~in_position
    /\ isna(test_df[1].row.Close) /\ test_df[1].row.signal = 1

----------------------------------------------------------------------------
\* Properties of the trade record

\* q is the fraction a / b * 100, undefined when a is
IsPctOf(q, a, b) ==
    IF a = NaN THEN q.d = 0
    ELSE q.d > 0 /\ q.n * b = a * 100 * q.d

\* C20: every trade appended to the ledger has the open position's stop as
\* exit_price when it exits by stop_loss, its target when it exits by target,
\* and the exit bar's Close when it exits by signal_exit or end_of_period;
\* pnl = exit_price - entry_price, pnl_pct = pnl / entry_price * 100,
\* duration_days = exit_date - entry_date >= 0; an append inside the loop
\* leaves the replay flat, and the end_of_period append ends the replay
C20_TradeRecord ==
    [][Len(trades') > Len(trades) =>
          LET t == trades'[Len(trades')]
              x == BarAt(t.exit_date)
          IN  /\ trades' = Append(trades, t)
              /\ t.exit_reason \in {"stop_loss", "target", "signal_exit", "end_of_period"}
              /\ t.exit_reason = "stop_loss" => t.exit_price = stop_loss
              /\ t.exit_reason = "target" => t.exit_price = target
              /\ t.exit_reason \in {"signal_exit", "end_of_period"} =>
                    t.exit_price = x.Close
              /\ t.exit_reason = "end_of_period" <=> pc' = "done"
              /\ t.exit_reason = "end_of_period" => t.exit_date = LastBar.date
              /\ t.exit_reason # "end_of_period" =>
                    (t.exit_date = row_name /\ ~in_position' /\ pc' = "loop")
              /\ t.pnl = (IF t.exit_price = NaN THEN NaN
                          ELSE t.exit_price - t.entry_price)
              /\ IsPctOf(t.pnl_pct, t.pnl, t.entry_price)
              /\ t.entry_price > 0
              /\ t.duration_days = t.exit_date - t.entry_date
              /\ t.duration_days >= 0
      ]_vars

C20_Witness ==
    /\ pc = "done"
    /\ Len(trades) = 2
    /\ trades[1].exit_reason = "stop_loss"
    /\ trades[1].pnl < 0 /\ trades[1].pnl # NaN
    /\ trades[1].duration_days = 1
    /\ trades[1].pnl_pct = [n |-> 0 - 50, d |-> 1]
    /\ trades[2].exit_reason = "end_of_period"
    /\ trades[2].duration_days = 0

C20_WitnessTarget ==
    /\ pc = "done"
    /\ Len(trades) = 1
    /\ trades[1].exit_reason = "target"
    /\ trades[1].pnl_pct = [n |-> 50, d |-> 1]

----------------------------------------------------------------------------
\* Properties of the win / loss counts

WinningTrades == { k \in 1..Len(trades) : trades[k].pnl # NaN /\ trades[k].pnl > 0 }
LosingTrades == { k \in 1..Len(trades) : trades[k].pnl # NaN /\ trades[k].pnl <= 0 }

\* C21: for a non-empty ledger winners is the number of trades with pnl > 0,
\* losers the number with pnl <= 0, winners + losers = total_trades, and
\* win_rate = winners / total_trades * 100
C21_WinnersAndLosers ==
    (pc = "done" /\ trades # <<>>) =>
        /\ metrics.total_trades = Len(trades)
        /\ metrics.winners = Cardinality(WinningTrades)
        /\ metrics.losers = Cardinality(LosingTrades)
        /\ metrics.winners + metrics.losers = metrics.total_trades
        /\ metrics.win_rate.d > 0
        /\ metrics.win_rate.n * metrics.total_trades
              = metrics.winners * 100 * metrics.win_rate.d

----------------------------------------------------------------------------
\* Properties of the MSS signals

Bullish == {"MSS_BULL", "BOS_BULL"}
Bearish == {"MSS_BEAR", "BOS_BEAR"}
MSSDone == pc = "done" /\ strategy.kind = "mss"

RECURSIVE StructureBefore(_)
\* previous_structure when row k is processed: 1 after a bullish tag, -1
\* after a bearish tag, unchanged by a row without tag, 0 at the start
StructureBefore(k) ==
    IF k <= 1 THEN 0
    ELSE IF table[k - 1].signal_type \in Bullish THEN 1
    ELSE IF table[k - 1].signal_type \in Bearish THEN 0 - 1
    ELSE StructureBefore(k - 1)

\* C22: MSS generate_signals walks the bars in order from structure 0; on a
\* bar whose Close is above the previous bar's last_swing_high it writes
\* signal 1 and MSS_BULL (structure <= 0) or BOS_BULL, structure becomes 1;
\* else on a bar whose Close is below the previous bar's last_swing_low it
\* writes signal 0 and MSS_BEAR (structure >= 0) or BOS_BEAR, structure
\* becomes -1; else it writes no tag, keeps the structure, and the signal is
\* 1 iff the structure is positive; an undefined swing level breaks nothing
C22_MSSTransitions ==
    MSSDone =>
        \A k \in 2..Len(table) :
            LET c == table[k].Close
                h == table[k - 1].last_swing_high
                l == table[k - 1].last_swing_low
                ps == StructureBefore(k)
            IN  IF h # NaN /\ c > h
                THEN /\ table[k].signal = 1
                     /\ table[k].signal_type = IF ps <= 0 THEN "MSS_BULL" ELSE "BOS_BULL"
                ELSE IF l # NaN /\ c < l
                THEN /\ table[k].signal = 0
                     /\ table[k].signal_type = IF ps >= 0 THEN "MSS_BEAR" ELSE "BOS_BEAR"
                ELSE /\ table[k].signal = IF ps > 0 THEN 1 ELSE 0
                     /\ table[k].signal_type = ""

C22_Witness ==
    /\ MSSDone
    /\ \E a, b, c \in 2..Len(table) :
          /\ a < b /\ b < c
          /\ table[a].signal_type = "MSS_BULL"
          /\ table[b].signal_type = "BOS_BULL"
          /\ table[c].signal_type = "MSS_BEAR" /\ table[c].signal = 0
    /\ table[1].last_swing_high = NaN /\ table[2].signal_type = ""

\* the tags in the order they were emitted
Tags ==
    LET all == [k \in 1..Len(table) |-> table[k].signal_type]
    IN  SelectSeq(all, LAMBDA t : t # "")

\* C23: the first tag is MSS_BULL or MSS_BEAR; a bullish tag directly after a
\* bullish tag is BOS_BULL and a bearish tag directly after a bearish tag is
\* BOS_BEAR; the first tag in the opposite direction is MSS_BEAR after
\* bullish and MSS_BULL after bearish; so between two MSS_BULL tags there is
\* a bearish tag and between two MSS_BEAR tags a bullish one
C23_TagSequence ==
    MSSDone =>
        /\ \A k \in 1..Len(Tags) : Tags[k] \in Bullish \cup Bearish
        /\ Tags # <<>> => Tags[1] \in {"MSS_BULL", "MSS_BEAR"}
        /\ \A k \in 2..Len(Tags) :
              Tags[k] = IF Tags[k] \in Bullish
                        THEN (IF Tags[k - 1] \in Bullish THEN "BOS_BULL" ELSE "MSS_BULL")
                        ELSE (IF Tags[k - 1] \in Bearish THEN "BOS_BEAR" ELSE "MSS_BEAR")
        /\ \A a, b \in 1..Len(Tags) :
              (a < b /\ Tags[a] = "MSS_BULL" /\ Tags[b] = "MSS_BULL") =>
                  \E m \in (a + 1)..(b - 1) : Tags[m] \in Bearish
        /\ \A a, b \in 1..Len(Tags) :
              (a < b /\ Tags[a] = "MSS_BEAR" /\ Tags[b] = "MSS_BEAR") =>
                  \E m \in (a + 1)..(b - 1) : Tags[m] \in Bullish

C23_Witness ==
    /\ MSSDone
    /\ Tags = <<"MSS_BEAR", "BOS_BEAR", "MSS_BULL">>

C23_WitnessBull ==
    /\ MSSDone
    /\ Tags = <<"MSS_BULL", "BOS_BULL", "MSS_BEAR">>

----------------------------------------------------------------------------
\* Properties of the swing detection

SwingWindow(k) ==
    /\ strategy.swing_length <= k - 1
    /\ k - 1 < Len(series) - strategy.swing_length

IsSwingHigh(k) ==
    /\ SwingWindow(k)
    /\ \A j \in 1..strategy.swing_length :
          /\ series[k].High > series[k - j].High
          /\ series[k].High > series[k + j].High

IsSwingLow(k) ==
    /\ SwingWindow(k)
    /\ \A j \in 1..strategy.swing_length :
          /\ series[k].Low < series[k - j].Low
          /\ series[k].Low < series[k + j].Low

\* the last index up to k for which P holds, 0 when there is none
LastSwingHighAt(k) ==
    LET S == { m \in 1..k : IsSwingHigh(m) } IN
    IF S = {} THEN 0 ELSE CHOOSE m \in S : \A o \in S : o <= m

LastSwingLowAt(k) ==
    LET S == { m \in 1..k : IsSwingLow(m) } IN
    IF S = {} THEN 0 ELSE CHOOSE m \in S : \A o \in S : o <= m

\* C24: with L = swing_length and n bars, bar i (0-based) carries a swing
\* high iff L <= i < n - L and its High is strictly above the High of each of
\* the L bars before and the L bars after it, and a swing low symmetrically
\* with strictly smaller Low; the first L and the last L bars carry none;
\* last_swing_high / last_swing_low are the most recent swing value at or
\* before the bar, undefined before the first swing
C24_SwingDetection ==
    MSSDone =>
        \A k \in 1..Len(table) :
            /\ table[k].swing_high = IF IsSwingHigh(k) THEN series[k].High ELSE NaN
            /\ table[k].swing_low = IF IsSwingLow(k) THEN series[k].Low ELSE NaN
            /\ (k <= strategy.swing_length \/ k > Len(table) - strategy.swing_length) =>
                  (table[k].swing_high = NaN /\ table[k].swing_low = NaN)
            /\ table[k].last_swing_high =
                  IF LastSwingHighAt(k) = 0 THEN NaN ELSE series[LastSwingHighAt(k)].High
            /\ table[k].last_swing_low =
                  IF LastSwingLowAt(k) = 0 THEN NaN ELSE series[LastSwingLowAt(k)].Low

C24_Witness ==
    /\ MSSDone
    /\ strategy.swing_length = 2
    /\ Len(table) = 6
    /\ table[3].swing_high = 60
    /\ table[4].swing_low = 20
    /\ table[2].last_swing_high = NaN
    /\ table[6].last_swing_high = 60
    /\ table[6].last_swing_low = 20

C24_WitnessTie ==
    /\ MSSDone
    /\ strategy.swing_length = 1
    /\ Len(table) >= 4
    /\ series[2].High = series[3].High
    /\ series[2].High > series[1].High /\ series[3].High > series[4].High
    /\ table[2].swing_high = NaN /\ table[3].swing_high = NaN

----------------------------------------------------------------------------
\* Properties of entries during the ATR warm-up

\* the row of the replayed window that carries the given date
RowOn(d) == (CHOOSE e \in { test_df[k] : k \in 1..Len(test_df) } : e.date = d).row

WarmUpEntry(d) ==
    /\ "stop_loss" \in DOMAIN RowOn(d) /\ "target" \in DOMAIN RowOn(d)
    /\ isna(RowOn(d).stop_loss) /\ isna(RowOn(d).target)

\* C25: when the table has stop_loss and target columns but their values on
\* the entry bar are undefined, the 5%/10% fallback levels are not applied: the
\* position keeps undefined exit levels, no later bar closes it with reason
\* stop_loss or target, and it closes only by signal_exit or end_of_period
C25_WarmUpEntryHasNoLevels ==
    /\ (pc = "loop" /\ in_position /\ WarmUpEntry(entry_date)) =>
          (isna(stop_loss) /\ isna(target))
    /\ pc \in {"loop", "done"} =>
          \A k \in 1..Len(trades) :
              WarmUpEntry(trades[k].entry_date) =>
                  /\ isna(trades[k].stop_loss) /\ isna(trades[k].target)
                  /\ trades[k].exit_reason \in {"signal_exit", "end_of_period"}

\* a warm-up entry at 40 held through a bar whose range covers both fallback
\* levels (38 and 44), then closed by the signal
C25_Witness ==
    /\ pc = "done"
    /\ Len(test_df) = 3
    /\ Len(trades) = 1
    /\ WarmUpEntry(trades[1].entry_date)
    /\ trades[1].entry_price = 40
    /\ test_df[2].row.Low <= FallbackStop(40)
    /\ test_df[2].row.High >= FallbackTarget(40)
    /\ test_df[2].row.signal = 1
    /\ trades[1].exit_reason = "signal_exit"

C25_WitnessFlush ==
    /\ pc = "done"
    /\ Len(trades) = 1
    /\ WarmUpEntry(trades[1].entry_date)
    /\ trades[1].exit_reason = "end_of_period"
    /\ trades[1].duration_days >= 1

----------------------------------------------------------------------------
\* Properties of the exits by level

\* on the entry bar of every trade of the ledger the stop is below and the
\* target above the entry Close
LevelsBracketEntry ==
    \A k \in 1..Len(trades) :
        /\ ~isna(trades[k].stop_loss) /\ ~isna(trades[k].target)
        /\ trades[k].stop_loss < trades[k].entry_price
        /\ trades[k].entry_price < trades[k].target

\* C26: if on every entry bar stop_loss < Close < target, every trade with
\* exit_reason target has pnl > 0 and every trade with exit_reason stop_loss
\* has pnl < 0, so targets_hit <= winners, stops_hit <= losers and
\* targets_hit + stops_hit <= total_trades
C26_LevelExitsHaveSign ==
    (pc = "done" /\ LevelsBracketEntry) =>
        /\ \A k \in 1..Len(trades) :
              /\ trades[k].exit_reason = "target" =>
                    (~isna(trades[k].pnl) /\ trades[k].pnl > 0)
              /\ trades[k].exit_reason = "stop_loss" =>
                    (~isna(trades[k].pnl) /\ trades[k].pnl < 0)
        /\ metrics.targets_hit <= metrics.winners
        /\ metrics.stops_hit <= metrics.losers
        /\ metrics.targets_hit + metrics.stops_hit <= metrics.total_trades

C26_Witness ==
    /\ pc = "done"
    /\ LevelsBracketEntry
    /\ Len(trades) = 2
    /\ trades[1].exit_reason = "target"
    /\ metrics.targets_hit = 1 /\ metrics.winners = 1
    /\ metrics.stops_hit = 0 /\ metrics.losers = 1

C26_WitnessStop ==
    /\ pc = "done"
    /\ LevelsBracketEntry
    /\ Len(trades) = 2
    /\ trades[1].exit_reason = "stop_loss"
    /\ metrics.stops_hit = 1 /\ metrics.losers = 2

----------------------------------------------------------------------------
\* Properties of the expectancy

REq(a, b) == ~risna(a) /\ ~risna(b) /\ a.n * b.d = b.n * a.d

DefinedPnl == \A k \in 1..Len(trades) : ~isna(trades[k].pnl)

\* C27: for every non-empty ledger expectancy equals avg_return, and
\* total_trades * expectancy = total_return
C27_ExpectancyIsAvgReturn ==
    (pc = "done" /\ trades # <<>>) =>
        /\ REq(metrics.expectancy, metrics.avg_return)
        /\ REq(RMul(RInt(metrics.total_trades), metrics.expectancy),
               metrics.total_return)

\* the same statement restricted to ledgers whose every pnl is defined
ExpectancyIsAvgReturnWhenPnlDefined ==
    (pc = "done" /\ trades # <<>> /\ DefinedPnl) =>
        /\ REq(metrics.expectancy, metrics.avg_return)
        /\ REq(RMul(RInt(metrics.total_trades), metrics.expectancy),
               metrics.total_return)

----------------------------------------------------------------------------
\* Properties of the MSS signal column

\* the index of the most recent tag at or before bar k, 0 when there is none
LastTagAt(k) ==
    LET S == { m \in 1..k : table[m].signal_type # "" } IN
    IF S = {} THEN 0 ELSE CHOOSE m \in S : \A o \in S : o <= m

\* C28: in the table generate_signals returns, bar 0 has signal 0 and no
\* tag, and on every bar the signal is 1 iff the most recent tag at or before
\* the bar is bullish; it is 0 while no tag has been emitted or the most
\* recent tag is bearish
C28_SignalFollowsLastTag ==
    (MSSDone /\ Len(table) > 0) =>
        /\ table[1].signal = 0
        /\ table[1].signal_type = ""
        /\ \A k \in 1..Len(table) :
              /\ table[k].signal \in {0, 1}
              /\ table[k].signal = 1 <=>
                    /\ LastTagAt(k) # 0
                    /\ table[LastTagAt(k)].signal_type \in Bullish

\* a bar without tag that stays long after a bullish tag, then a bearish tag
C28_Witness ==
    /\ MSSDone
    /\ \E k \in 2..Len(table) : \E m \in 1..Len(table) :
          /\ k < m
          /\ table[k - 1].signal_type \in Bullish
          /\ table[k].signal_type = "" /\ table[k].signal = 1
          /\ table[m].signal_type \in Bearish /\ table[m].signal = 0

\* a bar without tag that stays flat after a bearish tag
C28_WitnessFlat ==
    /\ MSSDone
    /\ \E m \in 2..Len(table) :
          /\ table[m].signal_type = "" /\ table[m].signal = 0
          /\ table[m - 1].signal_type \in Bearish

----------------------------------------------------------------------------
\* Properties of the scan of tickers that never lose

\* ledgers of the pipeline without a losing pnl: their gross loss is 0
NoLossLedgers ==
    { l \in PipelineLedgers :
        \A k \in 1..Len(l) : isna(l[k].pnl) \/ l[k].pnl >= 0 }

\* the row metrics such a ledger yields
NoLossMetrics == { RowMetrics(CalculateMetrics(l)) : l \in NoLossLedgers }

\* the returned table is the filtered one: its rows carry a score
Ranked == scan_df # <<>> /\ \A k \in 1..Len(scan_df) : "score" \in DOMAIN scan_df[k]

\* C30: a ticker whose ledger has no losing pnl gets profit_factor 0 and is
\* never part of the filtered, ranked set when min_profit_factor > 0,
\* whatever its win_rate and number of trades
C30_NoLossNeverRanked ==
    /\ \A m \in NoLossMetrics : m.profit_factor = RZero
    /\ (pc = "scan_done" /\ RGt(min_profit_factor, RZero) /\ Ranked) =>
          \A k \in 1..Len(scan_df) : scan_df[k].metrics \notin NoLossMetrics

\* a ticker with three winners out of three trades was scanned, another
\* ticker qualified, and the returned ranking leaves the all-winner out
C30_Witness ==
    /\ pc = "scan_done"
    /\ RGt(min_profit_factor, RZero)
    /\ Ranked
    /\ \E j \in 1..Len(scan_results) :
          /\ scan_results[j].metrics \in NoLossMetrics
          /\ scan_results[j].metrics.total_trades = 3
          /\ scan_results[j].metrics.win_rate = RInt(100)
          /\ \A k \in 1..Len(scan_df) : scan_df[k].ticker # scan_results[j].ticker

----------------------------------------------------------------------------
\* Properties of the MSS signals on a series and on its extensions

\* calculate_full on the first m bars of the series
OnFirst(m) == CalculateFull(strategy, SubSeq(series, 1, m))

SameSignal(a, b) == a.signal = b.signal /\ a.signal_type = b.signal_type

\* C29: with L = swing_length, the signal and signal_type of bar i (0-based)
\* computed on the first m bars of a series equal those computed on any
\* extension of it for every i <= m - L; the rows after m - L are not
\* covered, because the signal of bar i depends on bars up to i + L - 1
C29_StableUpToSwingLength ==
    (MSSDone /\ Len(table) = Len(series)) =>
        \A m \in 1..Len(series) :
            LET prefix_table == OnFirst(m) IN
            \A k \in 1..m :
                (k - 1 <= m - strategy.swing_length) =>
                    SameSignal(prefix_table[k], table[k])

\* bar 6 of a 7-bar series breaks the swing high of bar 2; on the 8-bar
\* extension bar 5 has become the last swing high and bar 6 no longer
\* breaks out
C29_Witness ==
    /\ MSSDone
    /\ strategy.swing_length = 2
    /\ Len(series) = 8 /\ Len(table) = 8
    /\ 7 - 1 > 7 - strategy.swing_length
    /\ OnFirst(7)[7].signal_type = "BOS_BULL"
    /\ table[7].signal_type = ""
    /\ OnFirst(7)[6].last_swing_high = 40
    /\ table[6].last_swing_high = 80

====
